---- MODULE Spec2Model ----
(***************************************************************************)
(* WineGUI helper (src/src/helper.cc): the registry reader, the Windows    *)
(* version resolver and the operations composed from them.                 *)
(*                                                                         *)
(* A std::string is a sequence of one-character strings, so that           *)
(* starts_with, find, substr, erase/remove and split are computed on       *)
(* characters as the code computes them.                                   *)
(***************************************************************************)
EXTENDS Integers, Sequences, FiniteSets, TLC

VARIABLES
  prefix_path,   \* the bottle prefix handed to the resolver operations
  user_reg,      \* <prefix>/user.reg on disk
  system_reg,    \* <prefix>/system.reg on disk
  other_reg,     \* a registry file handed directly to the registry reader
  disk,          \* the directories and directory entries on disk
  result         \* what the last operation returned or threw

vars == <<prefix_path, user_reg, system_reg, other_reg, disk, result>>

\* everything an operation of the helper only reads
on_disk == <<prefix_path, user_reg, system_reg, other_reg, disk>>

(***************************************************************************)
(* std::string operations used by the helper                               *)
(***************************************************************************)
npos == 0

\* line.starts_with(prefix)
starts_with(s, prefix) ==
  /\ Len(prefix) <= Len(s)
  /\ SubSeq(s, 1, Len(prefix)) = prefix

\* s.find(pattern): 1-based position of the first occurrence, npos if none
find(s, pattern) ==
  LET hits == {i \in 1..(Len(s) - Len(pattern) + 1) :
                 SubSeq(s, i, i + Len(pattern) - 1) = pattern}
  IN IF hits = {} THEN npos
     ELSE CHOOSE i \in hits : \A j \in hits : i <= j

\* s.substr(pos) with a 1-based pos
substr(s, pos) == SubSeq(s, pos, Len(s))

\* output.erase(std::remove(output.begin(), output.end(), c), output.end())
erase_remove(s, c) == SelectSeq(s, LAMBDA x : x # c)

\* s.find_first_of(delimiter, start): 1-based, npos if none
find_first_of(s, delimiter, start) ==
  LET hits == {i \in start..Len(s) : s[i] = delimiter}
  IN IF hits = {} THEN npos
     ELSE CHOOSE i \in hits : \A j \in hits : i <= j

\* s.find_last_of("/\\")
find_last_of_slash(s) ==
  LET hits == {i \in 1..Len(s) : s[i] \in {"/", "\\"}}
  IN IF hits = {} THEN npos
     ELSE CHOOSE i \in hits : \A j \in hits : i >= j

\* Helper::split(s, delimiter)
RECURSIVE split_from(_, _, _)
split_from(s, delimiter, start) ==
  LET end == find_first_of(s, delimiter, start)
  IN IF end = npos
       THEN <<SubSeq(s, start, Len(s))>>
       ELSE <<SubSeq(s, start, end - 1)>> \o split_from(s, delimiter, end + 1)

split(s, delimiter) == split_from(s, delimiter, 1)

(***************************************************************************)
(* Characters.  A char is a string: itself for the printable ASCII         *)
(* characters but the backquote, and for \t \n \f \r; the name <XX> of    *)
(* its byte otherwise.                                                     *)
(***************************************************************************)
\* the char of every byte value 0..255, at index value + 1
Chars ==
  <<
    "<00>", "<01>", "<02>", "<03>", "<04>", "<05>", "<06>", "<07>",
    "<08>", "\t", "\n", "<0B>", "\f", "\r", "<0E>", "<0F>",
    "<10>", "<11>", "<12>", "<13>", "<14>", "<15>", "<16>", "<17>",
    "<18>", "<19>", "<1A>", "<1B>", "<1C>", "<1D>", "<1E>", "<1F>",
    " ", "!", "\"", "#", "$", "%", "&", "'",
    "(", ")", "*", "+", ",", "-", ".", "/",
    "0", "1", "2", "3", "4", "5", "6", "7",
    "8", "9", ":", ";", "<", "=", ">", "?",
    "@", "A", "B", "C", "D", "E", "F", "G",
    "H", "I", "J", "K", "L", "M", "N", "O",
    "P", "Q", "R", "S", "T", "U", "V", "W",
    "X", "Y", "Z", "[", "\\", "]", "^", "_",
    "<60>", "a", "b", "c", "d", "e", "f", "g",
    "h", "i", "j", "k", "l", "m", "n", "o",
    "p", "q", "r", "s", "t", "u", "v", "w",
    "x", "y", "z", "{", "|", "}", "~", "<7F>",
    "<80>", "<81>", "<82>", "<83>", "<84>", "<85>", "<86>", "<87>",
    "<88>", "<89>", "<8A>", "<8B>", "<8C>", "<8D>", "<8E>", "<8F>",
    "<90>", "<91>", "<92>", "<93>", "<94>", "<95>", "<96>", "<97>",
    "<98>", "<99>", "<9A>", "<9B>", "<9C>", "<9D>", "<9E>", "<9F>",
    "<A0>", "<A1>", "<A2>", "<A3>", "<A4>", "<A5>", "<A6>", "<A7>",
    "<A8>", "<A9>", "<AA>", "<AB>", "<AC>", "<AD>", "<AE>", "<AF>",
    "<B0>", "<B1>", "<B2>", "<B3>", "<B4>", "<B5>", "<B6>", "<B7>",
    "<B8>", "<B9>", "<BA>", "<BB>", "<BC>", "<BD>", "<BE>", "<BF>",
    "<C0>", "<C1>", "<C2>", "<C3>", "<C4>", "<C5>", "<C6>", "<C7>",
    "<C8>", "<C9>", "<CA>", "<CB>", "<CC>", "<CD>", "<CE>", "<CF>",
    "<D0>", "<D1>", "<D2>", "<D3>", "<D4>", "<D5>", "<D6>", "<D7>",
    "<D8>", "<D9>", "<DA>", "<DB>", "<DC>", "<DD>", "<DE>", "<DF>",
    "<E0>", "<E1>", "<E2>", "<E3>", "<E4>", "<E5>", "<E6>", "<E7>",
    "<E8>", "<E9>", "<EA>", "<EB>", "<EC>", "<ED>", "<EE>", "<EF>",
    "<F0>", "<F1>", "<F2>", "<F3>", "<F4>", "<F5>", "<F6>", "<F7>",
    "<F8>", "<F9>", "<FA>", "<FB>", "<FC>", "<FD>", "<FE>", "<FF>"
  >>

\* static_cast<char>(n): the char of the low byte of n
chr(n) == Chars[(n % 256) + 1]

\* the byte value of a char
ord(c) == CHOOSE n \in 0..255 : Chars[n + 1] = c

\* the terminator c_str() puts after the last character
NUL == chr(0)

\* std::isdigit, std::isxdigit, std::tolower, toupper
isdigit(c) == c \in {"0", "1", "2", "3", "4", "5", "6", "7", "8", "9"}
isxdigit(c) ==
  \/ isdigit(c)
  \/ c \in {"a", "b", "c", "d", "e", "f", "A", "B", "C", "D", "E", "F"}
tolower(c) == IF ord(c) \in 65..90 THEN chr(ord(c) + 32) ELSE c
\* toupper leaving every letter as it is
toupper_keeps_case(c) == c
toupper(c) == IF ord(c) \in 97..122 THEN chr(ord(c) - 32) ELSE c

(***************************************************************************)
(* Escape decoder                                                          *)
(***************************************************************************)
\* to_hex taking every hex digit for a decimal digit
to_hex_of_decimal_digit(ch) == ord(ch) - ord("0")

\* the lambda to_hex of Helper::unescape_reg_key_data
to_hex(ch) ==
  IF isdigit(ch) THEN ord(ch) - ord("0") ELSE ord(tolower(ch)) - ord("a") + 10

\* wchar_to_utf8 with one byte for every code point up to 255
wchar_to_utf8_one_byte_to_255(wc) ==
  IF wc <= 255 THEN <<chr(wc)>>
  ELSE IF wc <= 2047 THEN <<chr(192 + (wc \div 64)), chr(128 + (wc % 64))>>
  ELSE <<chr(224 + (wc \div 4096)), chr(128 + ((wc \div 64) % 64)),
         chr(128 + (wc % 64))>>

\* wchar_to_utf8 with three bytes for every code point
wchar_to_utf8_always_three_bytes(wc) ==
  <<chr(224 + (wc \div 4096)), chr(128 + ((wc \div 64) % 64)), chr(128 + (wc % 64))>>

\* the lambda wchar_to_utf8 of Helper::unescape_reg_key_data; x >> n is
\* x \div 2^n, x & 0x3f is x % 64, and each | joins disjoint bits
wchar_to_utf8(wc) ==
  IF 0 <= wc /\ wc <= 127
    THEN <<chr(wc)>>
  ELSE IF 128 <= wc /\ wc <= 2047
    THEN <<chr(192 + (wc \div 64)), chr(128 + (wc % 64))>>
  ELSE IF 2048 <= wc /\ wc <= 65535
    THEN <<chr(224 + (wc \div 4096)), chr(128 + ((wc \div 64) % 64)),
           chr(128 + (wc % 64))>>
  ELSE IF 65536 <= wc /\ wc <= 2097151
    THEN <<chr(240 + (wc \div 262144)), chr(128 + ((wc \div 4096) % 64)),
           chr(128 + ((wc \div 64) % 64)), chr(128 + (wc % 64))>>
  ELSE IF 2097152 <= wc /\ wc <= 67108863
    THEN <<chr(248 + (wc \div 16777216)), chr(128 + ((wc \div 262144) % 64)),
           chr(128 + ((wc \div 4096) % 64)), chr(128 + ((wc \div 64) % 64)),
           chr(128 + (wc % 64))>>
  ELSE IF 67108864 <= wc /\ wc <= 2147483647
    THEN <<chr(252 + (wc \div 1073741824)), chr(128 + ((wc \div 16777216) % 64)),
           chr(128 + ((wc \div 262144) % 64)), chr(128 + ((wc \div 4096) % 64)),
           chr(128 + ((wc \div 64) % 64)), chr(128 + (wc % 64))>>
  ELSE <<>>

\* *p for a 1-based p into src.c_str()
deref(src, p) == IF p <= Len(src) THEN src[p] ELSE NUL

\* the control characters with a newline for the letter r as well
control_escapes_r_is_newline ==
  [a |-> chr(7), b |-> chr(8), e |-> chr(27), f |-> chr(12),
   n |-> chr(10), r |-> chr(10), t |-> chr(9), v |-> chr(11)]

\* the control character of a two-character escape
control_escapes ==
  [a |-> chr(7), b |-> chr(8), e |-> chr(27), f |-> chr(12),
   n |-> chr(10), r |-> chr(13), t |-> chr(9), v |-> chr(11)]

\* the number of digits the chain of if (isxdigit(*p)) ... p++ consumes from
\* p on, at most max
RECURSIVE hex_digits(_, _, _)
hex_digits(src, p, max) ==
  IF max = 0 \/ ~isxdigit(deref(src, p)) THEN 0
  ELSE 1 + hex_digits(src, p + 1, max - 1)

\* wch after the digits p .. p+count-1 were folded in with wch * 16 + to_hex
RECURSIVE hex_value(_, _, _)
hex_value(src, p, count) ==
  IF count = 0 THEN 0
  ELSE hex_value(src, p, count - 1) * 16 + to_hex(deref(src, p + count - 1))

is_octal_or_decimal(c) == isdigit(c)

is_octal(c) == c \in {"0", "1", "2", "3", "4", "5", "6", "7"}

\* the same for the chain of octal-digit tests of an octal escape
RECURSIVE octal_digits(_, _, _)
octal_digits(src, p, max) ==
  IF max = 0 \/ ~is_octal(deref(src, p)) THEN 0
  ELSE 1 + octal_digits(src, p + 1, max - 1)

RECURSIVE octal_value(_, _, _)
octal_value(src, p, count) ==
  IF count = 0 THEN 0
  ELSE octal_value(src, p, count - 1) * 8 + (ord(deref(src, p + count - 1)) - ord("0"))

\* the loop keeping the backslash of an escape it does not know
RECURSIVE unescape_from_keeping_backslash(_, _)
unescape_from_keeping_backslash(src, p) ==
  LET c == deref(src, p)
      e == deref(src, p + 1)
      hex == hex_digits(src, p + 2, 4)
      oct == octal_digits(src, p + 1, 3)
  IN IF c = NUL THEN <<>>
     ELSE IF c # "\\" THEN <<c>> \o unescape_from_keeping_backslash(src, p + 1)
     ELSE IF e = NUL THEN <<>>
     ELSE IF e \in {"a", "b", "e", "f", "n", "r", "t", "v"}
       THEN <<control_escapes[e]>> \o unescape_from_keeping_backslash(src, p + 2)
     ELSE IF e = "x"
       THEN IF hex = 0
              THEN <<"x">> \o unescape_from_keeping_backslash(src, p + 2)
              ELSE wchar_to_utf8(hex_value(src, p + 2, hex))
                     \o unescape_from_keeping_backslash(src, p + 2 + hex)
     ELSE IF is_octal(e)
       THEN wchar_to_utf8(octal_value(src, p + 1, oct))
              \o unescape_from_keeping_backslash(src, p + 1 + oct)
     ELSE <<c, e>> \o unescape_from_keeping_backslash(src, p + 2)

\* the while (*p) loop of Helper::unescape_reg_key_data from p on
RECURSIVE unescape_from(_, _)
unescape_from(src, p) ==
  LET c == deref(src, p)
      e == deref(src, p + 1)
      hex == hex_digits(src, p + 2, 4)
      oct == octal_digits(src, p + 1, 3)
  IN IF c = NUL THEN <<>>
     ELSE IF c # "\\" THEN <<c>> \o unescape_from(src, p + 1)
     ELSE IF e = NUL THEN <<>>
     ELSE IF e \in {"a", "b", "e", "f", "n", "r", "t", "v"}
       THEN <<control_escapes[e]>> \o unescape_from(src, p + 2)
     ELSE IF e = "x"
       THEN IF hex = 0
              THEN <<"x">> \o unescape_from(src, p + 2)
              ELSE wchar_to_utf8(hex_value(src, p + 2, hex))
                     \o unescape_from(src, p + 2 + hex)
     ELSE IF is_octal(e)
       THEN wchar_to_utf8(octal_value(src, p + 1, oct))
              \o unescape_from(src, p + 1 + oct)
     ELSE <<e>> \o unescape_from(src, p + 2)

\* Helper::unescape_reg_key_data
unescape_reg_key_data(src) == unescape_from(src, 1)

(***************************************************************************)
(* Constants of helper.cc                                                  *)
(***************************************************************************)
SystemReg ==
  <<"s","y","s","t","e","m",".","r","e","g">>

UserReg ==
  <<"u","s","e","r",".","r","e","g">>

RegKeyName9x ==
  <<"[","S","o","f","t","w","a","r","e","\\","\\","M","i","c","r","o","s","o","f","t","\\","\\","W","i","n","d","o","w","s","\\","\\","C","u","r","r","e","n","t","V","e","r","s","i","o","n","]">>

RegKeyNameNT ==
  <<"[","S","o","f","t","w","a","r","e","\\","\\","M","i","c","r","o","s","o","f","t","\\","\\","W","i","n","d","o","w","s"," ","N","T","\\","\\","C","u","r","r","e","n","t","V","e","r","s","i","o","n","]">>

RegKeyType ==
  <<"[","S","y","s","t","e","m","\\","\\","C","u","r","r","e","n","t","C","o","n","t","r","o","l","S","e","t","\\","\\","C","o","n","t","r","o","l","\\","\\","P","r","o","d","u","c","t","O","p","t","i","o","n","s","]">>

RegKeyWine ==
  <<"[","S","o","f","t","w","a","r","e","\\","\\","W","i","n","e","]">>

RegNameNTVersion ==
  <<"C","u","r","r","e","n","t","V","e","r","s","i","o","n">>

RegNameNTBuildNumber ==
  <<"C","u","r","r","e","n","t","B","u","i","l","d","N","u","m","b","e","r">>

RegName9xVersion ==
  <<"V","e","r","s","i","o","n","N","u","m","b","e","r">>

RegNameProductType ==
  <<"P","r","o","d","u","c","t","T","y","p","e">>

RegNameWindowsVersion ==
  <<"V","e","r","s","i","o","n">>

WindowsVersions ==
  <<
    [windows |-> "Windows10", version |-> <<"w","i","n","1","0">>,
     versionNumber |-> <<"1","0",".","0">>,
     buildNumber |-> <<"1","8","3","6","2">>,
     productType |-> <<"W","i","n","N","T">>],
    [windows |-> "Windows81", version |-> <<"w","i","n","8","1">>,
     versionNumber |-> <<"6",".","3">>,
     buildNumber |-> <<"9","6","0","0">>,
     productType |-> <<"W","i","n","N","T">>],
    [windows |-> "Windows8", version |-> <<"w","i","n","8">>,
     versionNumber |-> <<"6",".","2">>,
     buildNumber |-> <<"9","2","0","0">>,
     productType |-> <<"W","i","n","N","T">>],
    [windows |-> "Windows2008R2", version |-> <<"w","i","n","2","0","0","8","r","2">>,
     versionNumber |-> <<"6",".","1">>,
     buildNumber |-> <<"7","6","0","1">>,
     productType |-> <<"S","e","r","v","e","r","N","T">>],
    [windows |-> "Windows7", version |-> <<"w","i","n","7">>,
     versionNumber |-> <<"6",".","1">>,
     buildNumber |-> <<"7","6","0","1">>,
     productType |-> <<"W","i","n","N","T">>],
    [windows |-> "Windows2008", version |-> <<"w","i","n","2","0","0","8">>,
     versionNumber |-> <<"6",".","0">>,
     buildNumber |-> <<"6","0","0","2">>,
     productType |-> <<"S","e","r","v","e","r","N","T">>],
    [windows |-> "WindowsVista", version |-> <<"v","i","s","t","a">>,
     versionNumber |-> <<"6",".","0">>,
     buildNumber |-> <<"6","0","0","2">>,
     productType |-> <<"W","i","n","N","T">>],
    [windows |-> "Windows2003", version |-> <<"w","i","n","2","0","0","3">>,
     versionNumber |-> <<"5",".","2">>,
     buildNumber |-> <<"3","7","9","0">>,
     productType |-> <<"S","e","r","v","e","r","N","T">>],
    [windows |-> "WindowsXP", version |-> <<"w","i","n","x","p","6","4">>,
     versionNumber |-> <<"5",".","2">>,
     buildNumber |-> <<"3","7","9","0">>,
     productType |-> <<"W","i","n","N","T">>],
    [windows |-> "WindowsXP", version |-> <<"w","i","n","x","p">>,
     versionNumber |-> <<"5",".","1">>,
     buildNumber |-> <<"2","6","0","0">>,
     productType |-> <<"W","i","n","N","T">>],
    [windows |-> "Windows2000", version |-> <<"w","i","n","2","k">>,
     versionNumber |-> <<"5",".","0">>,
     buildNumber |-> <<"2","1","9","5">>,
     productType |-> <<"W","i","n","N","T">>],
    [windows |-> "WindowsME", version |-> <<"w","i","n","m","e">>,
     versionNumber |-> <<"4",".","9","0">>,
     buildNumber |-> <<"3","0","0","0">>,
     productType |-> <<>>],
    [windows |-> "Windows98", version |-> <<"w","i","n","9","8">>,
     versionNumber |-> <<"4",".","1","0">>,
     buildNumber |-> <<"2","2","2","2">>,
     productType |-> <<>>],
    [windows |-> "Windows95", version |-> <<"w","i","n","9","5">>,
     versionNumber |-> <<"4",".","0">>,
     buildNumber |-> <<"9","5","0">>,
     productType |-> <<>>],
    [windows |-> "WindowsNT40", version |-> <<"n","t","4","0">>,
     versionNumber |-> <<"4",".","0">>,
     buildNumber |-> <<"1","3","8","1">>,
     productType |-> <<"W","i","n","N","T">>],
    [windows |-> "WindowsNT351", version |-> <<"n","t","3","5","1">>,
     versionNumber |-> <<"3",".","5","1">>,
     buildNumber |-> <<"1","0","5","7">>,
     productType |-> <<"W","i","n","N","T">>],
    [windows |-> "Windows31", version |-> <<"w","i","n","3","1">>,
     versionNumber |-> <<"3",".","1","0">>,
     buildNumber |-> <<"0">>,
     productType |-> <<>>],
    [windows |-> "Windows30", version |-> <<"w","i","n","3","0">>,
     versionNumber |-> <<"3",".","0">>,
     buildNumber |-> <<"0">>,
     productType |-> <<>>],
    [windows |-> "Windows20", version |-> <<"w","i","n","2","0">>,
     versionNumber |-> <<"2",".","0">>,
     buildNumber |-> <<"0">>,
     productType |-> <<>>]
  >>

\* BottleTypes::WindowsEnumSize (bottle_types.h): the hardcoded bound of every
\* loop over WindowsVersions; helper.cc:90 documents that it is kept equal to
\* the number of rows of the table.
WindowsEnumSize == 19

\* WineDefaults::WindowsOs (wine_defaults.h), the designated default version
WindowsOs == "WindowsXP"

\* BottleTypes::to_string(Windows) (bottle_types.cc): the display name, kept
\* as one token
to_string(windows) == <<windows>>

\* sizeof(std::vector<string>): three pointers, whatever the vector holds
sizeof_version_list == 24

MsgCouldNotOpen ==
  <<"C","o","u","l","d"," ","n","o","t"," ","o","p","e","n"," ","r","e","g","i","s","t","r","y"," ","f","i","l","e","!">>

MsgCouldNotDetermine ==
  <<"C","o","u","l","d"," ","n","o","t"," ","d","e","t","e","r","m","i","n","e"," ","W","i","n","d","o","w","s"," ","v","e","r","s","i","o","n",","," ","w","e"," ","a","s","s","u","m","e"," ">>

MsgWineMachine ==
  <<"."," ","W","i","n","e"," ","m","a","c","h","i","n","e",":"," ">>

MsgFullLocation ==
  <<"\n","\n","F","u","l","l"," ","l","o","c","a","t","i","o","n",":"," ">>

NameUnknown ==
  <<"-"," ","U","n","k","n","o","w","n"," ","-">>

OtherRegPath ==
  <<"/","r","/","x",".","r","e","g">>

(***************************************************************************)
(* Files on disk.  A file is [is_open, lines, nl]: whether std::ifstream   *)
(* can open it, its lines, and whether its last line ends with a newline.  *)
(***************************************************************************)
NoFile == [is_open |-> FALSE, lines |-> <<>>, nl |-> FALSE]

\* Glib::build_filename(dir, name)
build_filename(dir, name) ==
  IF dir # <<>> /\ dir[Len(dir)] = "/" THEN dir \o name
  ELSE dir \o <<"/">> \o name

\* std::ifstream reg_file(file_path): the file behind a path
ifstream(file_path) ==
  IF file_path = build_filename(prefix_path, UserReg) THEN user_reg
  ELSE IF file_path = build_filename(prefix_path, SystemReg) THEN system_reg
  ELSE IF file_path = OtherRegPath THEN other_reg
  ELSE NoFile

\* Helper::dir_exists: Glib::file_test(dir_path, FILE_TEST_IS_DIR)
dir_exists(dir_path) == dir_path \in disk.dirs

\* Helper::file_exists: Glib::file_test(file_path, FILE_TEST_IS_REGULAR)
file_exists(file_path) == file_path \in disk.files

\* The successive results of std::getline(reg_file, line): the line read and
\* the stream's eof() after the read.  eof() is set by the read that reaches
\* the end of the file without meeting a newline.
getline(file) ==
  [i \in 1..Len(file.lines) |->
     [line |-> file.lines[i],
      eof  |-> (i = Len(file.lines) /\ ~file.nl)]]

\* What an operation hands back: a value, or a thrown exception
returns(v) == [ok |-> TRUE, value |-> v, what |-> "none", msg |-> <<>>]
throws(what, msg) == [ok |-> FALSE, value |-> <<>>, what |-> what, msg |-> msg]

(***************************************************************************)
(* Registry reader                                                         *)
(***************************************************************************)
\* the while loop of Helper::get_reg_value from line i on
RECURSIVE get_reg_value_loop(_, _, _, _, _)
get_reg_value_loop(reads, i, match, key_name, value_pattern) ==
  IF i > Len(reads) THEN <<>>
  ELSE LET line == reads[i].line
           pos == find(line, value_pattern)
       IN IF ~match
            THEN get_reg_value_loop(reads, i + 1, starts_with(line, key_name),
                                    key_name, value_pattern)
          ELSE IF pos # npos
            THEN erase_remove(substr(line, pos + Len(value_pattern)), "\"")
          ELSE get_reg_value_loop(reads, i + 1, TRUE, key_name, value_pattern)

\* Helper::get_reg_value, taking every line of the file for a line of the key
get_reg_value_without_header(file_path, key_name, value_name) ==
  LET file == ifstream(file_path)
      value_pattern == <<"\"">> \o value_name \o <<"\"", "=">>
  IN IF file.is_open
       THEN returns(get_reg_value_loop(getline(file), 1, TRUE, key_name, value_pattern))
       ELSE throws("runtime_error", MsgCouldNotOpen)

\* Helper::get_reg_value
get_reg_value(file_path, key_name, value_name) ==
  LET value_pattern == <<"\"">> \o value_name \o <<"\"", "=">>
      file == ifstream(file_path)
  IN IF file.is_open
       THEN returns(get_reg_value_loop(getline(file), 1, FALSE, key_name, value_pattern))
       ELSE throws("runtime_error", MsgCouldNotOpen)

\* the while loop of Helper::get_reg_keys from line i on
RECURSIVE get_reg_keys_loop(_, _, _, _)
get_reg_keys_loop(reads, i, match, key_name) ==
  IF i > Len(reads) THEN <<>>
  ELSE LET line == reads[i].line
       IN IF ~match
            THEN get_reg_keys_loop(reads, i + 1, starts_with(line, key_name), key_name)
          ELSE IF line = <<>> \/ reads[i].eof
            THEN <<>>
          ELSE IF ~starts_with(line, <<"#">>)
            THEN <<line>> \o get_reg_keys_loop(reads, i + 1, TRUE, key_name)
          ELSE get_reg_keys_loop(reads, i + 1, TRUE, key_name)

\* Helper::get_reg_keys
get_reg_keys(file_path, key_name) ==
  LET file == ifstream(file_path)
  IN IF file.is_open
       THEN returns(get_reg_keys_loop(getline(file), 1, FALSE, key_name))
       ELSE throws("runtime_error", MsgCouldNotOpen)

\* the while loop of Helper::get_reg_keys_data_filter_ignore from line i on
RECURSIVE get_reg_keys_data_loop(_, _, _, _, _, _)
get_reg_keys_data_loop(reads, i, match, key_name, key_value_filter, key_name_ignore_filter) ==
  IF i > Len(reads) THEN <<>>
  ELSE LET raw == reads[i].line
           line == unescape_reg_key_data(raw)
           kept == /\ ~starts_with(line, <<"#">>)
                   /\ (key_value_filter = <<>> \/ find(line, key_value_filter) # npos)
                   /\ (key_name_ignore_filter = <<>>
                         \/ find(line, key_name_ignore_filter) = npos)
           results == split(line, "=")
           rest == get_reg_keys_data_loop(reads, i + 1, TRUE, key_name,
                                          key_value_filter, key_name_ignore_filter)
       IN IF ~match
            THEN get_reg_keys_data_loop(reads, i + 1, starts_with(raw, key_name), key_name,
                                        key_value_filter, key_name_ignore_filter)
          ELSE IF raw = <<>> \/ reads[i].eof
            THEN <<>>
          ELSE IF kept /\ Len(results) > 1
            THEN <<erase_remove(results[2], "\"")>> \o rest
          ELSE rest

\* Helper::get_reg_keys_data_filter_ignore
get_reg_keys_data_filter_ignore(file_path, key_name, key_value_filter, key_name_ignore_filter) ==
  LET file == ifstream(file_path)
  IN IF file.is_open
       THEN returns(get_reg_keys_data_loop(getline(file), 1, FALSE, key_name,
                                           key_value_filter, key_name_ignore_filter))
       ELSE throws("runtime_error", MsgCouldNotOpen)

\* Helper::get_reg_keys_data_filter
get_reg_keys_data_filter(file_path, key_name, key_value_filter) ==
  get_reg_keys_data_filter_ignore(file_path, key_name, key_value_filter, <<>>)

\* Helper::get_reg_keys_data
get_reg_keys_data(file_path, key_name) ==
  get_reg_keys_data_filter(file_path, key_name, <<>>)

\* the while loop of Helper::get_reg_meta_data, ending at the first key header
RECURSIVE get_reg_meta_data_loop_before_keys(_, _, _)
get_reg_meta_data_loop_before_keys(reads, i, meta_pattern) ==
  IF i > Len(reads) \/ starts_with(reads[i].line, <<"[">>) THEN <<>>
  ELSE LET line == reads[i].line
           pos == find(line, meta_pattern)
       IN IF pos # npos
            THEN erase_remove(substr(line, pos + Len(meta_pattern)), "\"")
            ELSE get_reg_meta_data_loop_before_keys(reads, i + 1, meta_pattern)

\* the while loop of Helper::get_reg_meta_data from line i on
RECURSIVE get_reg_meta_data_loop(_, _, _)
get_reg_meta_data_loop(reads, i, meta_pattern) ==
  IF i > Len(reads) THEN <<>>
  ELSE LET line == reads[i].line
           pos == find(line, meta_pattern)
       IN IF pos # npos
            THEN erase_remove(substr(line, pos + Len(meta_pattern)), "\"")
            ELSE get_reg_meta_data_loop(reads, i + 1, meta_pattern)

\* Helper::get_reg_meta_data, handing back nothing for a file that does not open
get_reg_meta_data_unopened_is_empty(file_path, meta_value_name) ==
  LET meta_pattern == <<"#">> \o meta_value_name \o <<"=">>
      file == ifstream(file_path)
  IN IF file.is_open
       THEN returns(get_reg_meta_data_loop(getline(file), 1, meta_pattern))
       ELSE returns(<<>>)

\* Helper::get_reg_meta_data
get_reg_meta_data(file_path, meta_value_name) ==
  LET meta_pattern == <<"#">> \o meta_value_name \o <<"=">>
      file == ifstream(file_path)
  IN IF file.is_open
       THEN returns(get_reg_meta_data_loop(getline(file), 1, meta_pattern))
       ELSE throws("runtime_error", MsgCouldNotOpen)

(***************************************************************************)
(* Bottle folder name                                                      *)
(***************************************************************************)
\* Helper::get_bottle_dir_from_prefix
get_bottle_dir_from_prefix(prefix) ==
  LET last_index == find_last_of_slash(prefix)
      name == substr(prefix, last_index + 1)
  IN IF last_index = npos THEN NameUnknown
     ELSE IF find_first_of(name, ".", 1) = 1 THEN substr(name, 2)
     ELSE name

\* Helper::get_folder_name
get_folder_name(prefix) == get_bottle_dir_from_prefix(prefix)

(***************************************************************************)
(* Windows version resolver                                                *)
(***************************************************************************)
\* the rows (1-based) a loop for (i = 0; i < WindowsEnumSize; i++) visits
table_rows == 1..WindowsEnumSize

\* for (...) if (row i is a hit) return ...: the first hit, 0 when the loop
\* runs to its end
first_row(hits) ==
  IF hits = {} THEN 0
  ELSE CHOOSE i \in hits : \A j \in hits : i <= j

\* a prefix comparison where the code compares whole strings
version_tag_matches_prefix(i, win_version) ==
  starts_with(WindowsVersions[i].version, win_version)

\* loop body, user registry: the row's short tag equals win_version
version_tag_matches(i, win_version) ==
  WindowsVersions[i].version = win_version

\* the product type is never compared
nt_build_matches_any_type(i, version, build_number_nt, type_nt) ==
  /\ WindowsVersions[i].versionNumber = version
  /\ WindowsVersions[i].buildNumber = build_number_nt

\* a missing product type is taken to be WinNT
nt_build_matches_workstation(i, version, build_number_nt, type_nt) ==
  /\ WindowsVersions[i].versionNumber = version
  /\ WindowsVersions[i].buildNumber = build_number_nt
  /\ WindowsVersions[i].productType =
       (IF type_nt = <<>> THEN <<"W", "i", "n", "N", "T">> ELSE type_nt)

\* loop body, NT: version and build number match, and the product type too
\* when one was found
nt_build_matches(i, version, build_number_nt, type_nt) ==
  /\ WindowsVersions[i].versionNumber = version
  /\ WindowsVersions[i].buildNumber = build_number_nt
  /\ (type_nt # <<>> => WindowsVersions[i].productType = type_nt)

\* the fall-back never compares the product type
nt_version_matches_any_type(i, version, type_nt) ==
  WindowsVersions[i].versionNumber = version

\* loop body, NT fall-back: the version matches, and the product type too
\* when one was found
nt_version_matches(i, version, type_nt) ==
  /\ WindowsVersions[i].versionNumber = version
  /\ (type_nt # <<>> => WindowsVersions[i].productType = type_nt)

\* loop body, 9x: version and build number match
legacy_matches(i, current_version, current_build_number) ==
  /\ WindowsVersions[i].versionNumber = current_version
  /\ WindowsVersions[i].buildNumber = current_build_number

\* the message stops after the folder name
could_not_determine_without_location(prefix) ==
  throws("runtime_error",
         MsgCouldNotDetermine \o to_string(WindowsOs) \o MsgWineMachine
           \o get_folder_name(prefix))

\* the runtime_error "Could not determine Windows version ..."
could_not_determine(prefix) ==
  throws("runtime_error",
         MsgCouldNotDetermine \o to_string(WindowsOs) \o MsgWineMachine
           \o get_folder_name(prefix) \o MsgFullLocation \o prefix)

\* the 9x branch of Helper::get_windows_version
get_windows_version_9x(version) ==
  LET version_list == split(version, ".")
      \* sizeof(version_list) >= 2 and >= 3 hold whatever the vector holds;
      \* version_list.at(n) throws std::out_of_range beyond its elements
      at1_throws == sizeof_version_list >= 2 /\ Len(version_list) < 2
      at2_throws == sizeof_version_list >= 3 /\ Len(version_list) < 3
      current_version ==
        IF sizeof_version_list >= 2
          THEN version_list[1] \o <<".">> \o version_list[2]
          ELSE <<>>
      current_build_number ==
        IF sizeof_version_list >= 3 THEN version_list[3] ELSE <<>>
      row == first_row({i \in table_rows :
                          legacy_matches(i, current_version, current_build_number)})
  IN IF at1_throws \/ at2_throws THEN throws("out_of_range", <<>>)
     ELSE IF row # 0 THEN returns(WindowsVersions[row].windows)
     ELSE returns(WindowsOs)

\* the NT branch of Helper::get_windows_version
get_windows_version_nt(prefix, version, build_number_nt, type_nt) ==
  LET row == first_row({i \in table_rows :
                          nt_build_matches(i, version, build_number_nt, type_nt)})
      fallback == first_row({i \in table_rows :
                               nt_version_matches(i, version, type_nt)})
  IN IF row # 0 THEN returns(WindowsVersions[row].windows)
     ELSE IF fallback # 0 THEN returns(WindowsVersions[fallback].windows)
     ELSE could_not_determine(prefix)

\* Helper::get_windows_version; "opened" lists the files it opened, in order
get_windows_version(prefix) ==
  LET user_reg_file_path == build_filename(prefix, UserReg)
      system_reg_file_path == build_filename(prefix, SystemReg)
      win_version == get_reg_value(user_reg_file_path, RegKeyWine, RegNameWindowsVersion)
      tag_row == first_row({i \in table_rows : version_tag_matches(i, win_version.value)})
      version_nt == get_reg_value(system_reg_file_path, RegKeyNameNT, RegNameNTVersion)
      build_number_nt == get_reg_value(system_reg_file_path, RegKeyNameNT, RegNameNTBuildNumber)
      type_nt == get_reg_value(system_reg_file_path, RegKeyType, RegNameProductType)
      version_9x == get_reg_value(system_reg_file_path, RegKeyName9x, RegName9xVersion)
      u == <<user_reg_file_path>>
      s == <<system_reg_file_path>>
  IN IF ~win_version.ok
       THEN [ret |-> win_version, opened |-> u]
     ELSE IF win_version.value # <<>> /\ tag_row # 0
       THEN [ret |-> returns(WindowsVersions[tag_row].windows), opened |-> u]
     ELSE IF ~version_nt.ok
       THEN [ret |-> version_nt, opened |-> u \o s]
     ELSE IF version_nt.value # <<>>
       THEN IF ~build_number_nt.ok
              THEN [ret |-> build_number_nt, opened |-> u \o s \o s]
            ELSE IF ~type_nt.ok
              THEN [ret |-> type_nt, opened |-> u \o s \o s \o s]
            ELSE [ret |-> get_windows_version_nt(prefix, version_nt.value,
                                                 build_number_nt.value, type_nt.value),
                  opened |-> u \o s \o s \o s]
     ELSE IF ~version_9x.ok
       THEN [ret |-> version_9x, opened |-> u \o s \o s]
     ELSE IF version_9x.value # <<>>
       THEN [ret |-> get_windows_version_9x(version_9x.value), opened |-> u \o s \o s]
     ELSE [ret |-> could_not_determine(prefix), opened |-> u \o s \o s]

(***************************************************************************)
(* Bottle status                                                           *)
(***************************************************************************)
\* the dosdevices directory of a prefix
DosDevices == <<"d","o","s","d","e","v","i","c","e","s">>

\* Helper::get_bottle_status, not looking for the dosdevices directory
get_bottle_status_without_dosdevices(prefix) ==
  IF dir_exists(prefix) /\ file_exists(build_filename(prefix, SystemReg))
    THEN LET version == get_windows_version(prefix).ret
         IN IF version.ok THEN returns(TRUE)
            ELSE IF version.what = "runtime_error" THEN returns(FALSE)
            ELSE version
    ELSE returns(FALSE)

\* Helper::get_bottle_status; an exception that is not a std::runtime_error
\* passes the catch clause and leaves the function
get_bottle_status(prefix) ==
  IF /\ dir_exists(prefix)
     /\ dir_exists(build_filename(prefix, DosDevices))
     /\ file_exists(build_filename(prefix, SystemReg))
    THEN LET version == get_windows_version(prefix).ret
         IN IF version.ok THEN returns(TRUE)
            ELSE IF version.what = "runtime_error" THEN returns(FALSE)
            ELSE version
    ELSE returns(FALSE)

(***************************************************************************)
(* Bottle directories                                                      *)
(***************************************************************************)
\* Glib::get_home_dir() joined with ".wine"; the home directory is /h
DefaultBottleWineDir == <<"/","h","/",".","w","i","n","e">>

\* the names dir.read_name() yields for a directory, in no particular order
read_names(dir_path) ==
  LET inside == IF dir_path # <<>> /\ dir_path[Len(dir_path)] = "/"
                  THEN dir_path ELSE dir_path \o <<"/">>
  IN {substr(path, Len(inside) + 1) :
        path \in {p \in disk.dirs \cup disk.files :
                    /\ starts_with(p, inside)
                    /\ Len(p) > Len(inside)
                    /\ find(substr(p, Len(inside) + 1), <<"/">>) = npos}}

\* std::lexicographical_compare with case_insensitive_less, from position i
RECURSIVE case_insensitive_compare_from(_, _, _)
case_insensitive_compare_from(a, b, i) ==
  IF i > Len(a) \/ i > Len(b) THEN i > Len(a) /\ i <= Len(b)
  ELSE IF ord(toupper(a[i])) < ord(toupper(b[i])) THEN TRUE
  ELSE IF ord(toupper(b[i])) < ord(toupper(a[i])) THEN FALSE
  ELSE case_insensitive_compare_from(a, b, i + 1)

\* Helper::case_insensitive_compare
case_insensitive_compare(a, b) == case_insensitive_compare_from(a, b, 1)

\* every order of the elements of a set
RECURSIVE orderings(_)
orderings(paths) ==
  IF paths = {} THEN {<<>>}
  ELSE UNION {{<<p>> \o rest : rest \in orderings(paths \ {p})} : p \in paths}

\* std::sort(list.begin(), list.end(), Helper::case_insensitive_compare): the
\* orders it may leave the list in; the order of elements that compare equal
\* is unspecified
std_sort(paths) ==
  {list \in orderings(paths) :
     \A i, j \in 1..Len(list) : i < j => ~case_insensitive_compare(list[j], list[i])}

\* Helper::get_bottles_paths: the outcomes it may have.  Glib::Dir throws a
\* Glib::FileError for a path that is not a directory that can be read.
get_bottles_paths(dir_path, display_default_wine_machine) ==
  IF ~dir_exists(dir_path) THEN {throws("Glib::FileError", <<>>)}
  ELSE LET found == {path \in {build_filename(dir_path, name) : name \in read_names(dir_path)} :
                       dir_exists(path)}
           default == IF display_default_wine_machine /\ dir_exists(DefaultBottleWineDir)
                        THEN <<DefaultBottleWineDir>> ELSE <<>>
       IN {returns(list \o default) : list \in std_sort(found)}

(***************************************************************************)
(* Bottle configuration read from user.reg                                 *)
(***************************************************************************)
RegKeyAudio ==
  <<"[","S","o","f","t","w","a","r","e","\\","\\","W","i","n","e","\\","\\","D","r","i","v","e","r","s","]">>

RegKeyVirtualDesktop ==
  <<"[","S","o","f","t","w","a","r","e","\\","\\","W","i","n","e","\\","\\","E","x","p","l","o","r","e","r","]">>

RegKeyVirtualDesktopResolution ==
  <<"[","S","o","f","t","w","a","r","e","\\","\\","W","i","n","e","\\","\\","E","x","p","l","o","r","e","r","\\","\\","D","e","s","k","t","o","p","s","]">>

RegKeyMenuFiles ==
  <<"[","S","o","f","t","w","a","r","e","\\","\\","W","i","n","e","\\","\\","M","e","n","u","F","i","l","e","s","]">>

RegNameAudio == <<"A","u","d","i","o">>
RegNameVirtualDesktop == <<"D","e","s","k","t","o","p">>
RegNameVirtualDesktopDefault == <<"D","e","f","a","u","l","t">>

StartMenu == <<"S","t","a","r","t"," ","M","e","n","u">>
ApplicationsMerged == <<"a","p","p","l","i","c","a","t","i","o","n","s","-","m","e","r","g","e","d">>

MsgSystemBitOther ==
  <<"C","o","u","l","d"," ","n","o","t"," ","d","e","t","e","r","m","i","n","e"," ","W","i","n","d","o","w","s"," ","s","y","s","t","e","m"," ","b","i","t"," ","(","n","o","t"," ","w","i","n","3","2"," ","a","n","d"," ","n","o","t"," ","w","i","n","6","4",","," ","v","a","l","u","e",":"," ">>

MsgForWineMachine ==
  <<")",","," ","f","o","r"," ","W","i","n","e"," ","m","a","c","h","i","n","e",":"," ">>

MsgSystemBit ==
  <<"C","o","u","l","d"," ","n","o","t"," ","d","e","t","e","r","m","i","n","e"," ","W","i","n","d","o","w","s"," ","s","y","s","t","e","m"," ","b","i","t",","," ","f","o","r"," ","W","i","n","e"," ","m","a","c","h","i","n","e",":"," ">>

\* Helper::get_windows_bitness, absent arch taken for win32
get_windows_bitness_absent_is_win32(prefix) ==
  LET value == get_reg_meta_data(build_filename(prefix, UserReg), <<"a","r","c","h">>)
  IN IF ~value.ok THEN value
     ELSE IF value.value = <<>> \/ value.value = <<"w","i","n","3","2">> THEN returns("win32")
     ELSE IF value.value = <<"w","i","n","6","4">> THEN returns("win64")
     ELSE throws("runtime_error",
                 MsgSystemBitOther \o value.value \o MsgForWineMachine
                   \o get_folder_name(prefix) \o MsgFullLocation \o prefix)

\* Helper::get_windows_bitness
get_windows_bitness(prefix) ==
  LET file_path == build_filename(prefix, UserReg)
      meta_value_name == <<"a","r","c","h">>
      value == get_reg_meta_data(file_path, meta_value_name)
  IN IF ~value.ok THEN value
     ELSE IF value.value # <<>>
       THEN IF value.value = <<"w","i","n","3","2">> THEN returns("win32")
            ELSE IF value.value = <<"w","i","n","6","4">> THEN returns("win64")
            ELSE throws("runtime_error",
                        MsgSystemBitOther \o value.value \o MsgForWineMachine
                          \o get_folder_name(prefix) \o MsgFullLocation \o prefix)
     ELSE throws("runtime_error",
                 MsgSystemBit \o get_folder_name(prefix) \o MsgFullLocation \o prefix)

\* Helper::get_audio_driver, failing on a value that names no driver
get_audio_driver_known_only(prefix) ==
  LET value == get_reg_value(build_filename(prefix, UserReg), RegKeyAudio, RegNameAudio)
  IN IF ~value.ok THEN value
     ELSE IF value.value = <<>> \/ value.value = <<"p","u","l","s","e">> THEN returns("pulseaudio")
     ELSE IF value.value = <<"a","l","s","a">> THEN returns("alsa")
     ELSE IF value.value = <<"o","s","s">> THEN returns("oss")
     ELSE IF value.value = <<"c","o","r","e","a","u","d","i","o">> THEN returns("coreaudio")
     ELSE IF value.value = <<"d","i","s","a","b","l","e","d">> THEN returns("disabled")
     ELSE throws("runtime_error", value.value)

\* Helper::get_audio_driver
get_audio_driver(prefix) ==
  LET file_path == build_filename(prefix, UserReg)
      value == get_reg_value(file_path, RegKeyAudio, RegNameAudio)
  IN IF ~value.ok THEN value
     ELSE IF value.value # <<>>
       THEN IF value.value = <<"p","u","l","s","e">> THEN returns("pulseaudio")
            ELSE IF value.value = <<"a","l","s","a">> THEN returns("alsa")
            ELSE IF value.value = <<"o","s","s">> THEN returns("oss")
            ELSE IF value.value = <<"c","o","r","e","a","u","d","i","o">> THEN returns("coreaudio")
            ELSE IF value.value = <<"d","i","s","a","b","l","e","d">> THEN returns("disabled")
            ELSE returns("pulseaudio")
     ELSE returns("pulseaudio")

\* Helper::get_virtual_desktop
get_virtual_desktop(prefix) ==
  LET file_path == build_filename(prefix, UserReg)
      emulate_desktop_value ==
        get_reg_value(file_path, RegKeyVirtualDesktop, RegNameVirtualDesktop)
      resolution_value ==
        get_reg_value(file_path, RegKeyVirtualDesktopResolution,
                      RegNameVirtualDesktopDefault)
  IN IF ~emulate_desktop_value.ok THEN emulate_desktop_value
     ELSE IF emulate_desktop_value.value # <<>> THEN resolution_value
     ELSE returns(<<>>)

\* Helper::get_menu_items
get_menu_items(prefix) ==
  LET file_path == build_filename(prefix, UserReg)
  IN get_reg_keys_data_filter_ignore(file_path, RegKeyMenuFiles, StartMenu,
                                     ApplicationsMerged)

(***************************************************************************)
(* Registry files the operations are run on                                *)
(***************************************************************************)
\* "name"="value", the form of a value line of a registry file
value_line(name, value) ==
  <<"\"">> \o name \o <<"\"", "=", "\"">> \o value \o <<"\"">>

\* [key] followed by the modification time, the form of a header line
header_line(key_name) == key_name \o <<" ","1","6","0","0","0","0","0","0","0","0">>

\* the value lines of an optional value: o is <<>> or <<value>>
optional_line(name, o) ==
  IF o = <<>> THEN <<>> ELSE <<value_line(name, o[1])>>

Optional(values) == {<<>>} \cup {<<v>> : v \in values}

\* a key of user.reg that follows [Software\\Wine]
RegKeyWineDbg == <<"[","S","o","f","t","w","a","r","e","\\","\\","W","i","n","e","\\","\\","W","i","n","e","D","b","g","]">>

PrefixPaths == {<<"/","h","/",".","w","i","n","e">>, <<"/","h","/","b","1">>, <<"b","1">>}

\* short version tags found in user.reg: first, middle and last rows of the
\* table, a tag of no row, and the empty value
UserVersions ==
  {WindowsVersions[i].version : i \in {1, 4, 5, 9, 19}} \cup {<<"w","i","n","9","9">>, <<>>}

\* user.reg with the Version value in the [Software\\Wine] section (version)
\* and in a later section (later)
UserRegFile(version, later) ==
  [is_open |-> TRUE,
   lines |-> <<header_line(RegKeyWine)>>
             \o optional_line(RegNameWindowsVersion, version)
             \o <<<<>>, header_line(RegKeyWineDbg)>>
             \o optional_line(RegNameWindowsVersion, later),
   nl |-> TRUE]

UserRegFiles ==
  {NoFile}
  \cup {UserRegFile(v, <<>>) : v \in Optional(UserVersions)}
  \cup {UserRegFile(<<>>, <<WindowsVersions[5].version>>)}

NTVersions ==
  {WindowsVersions[i].versionNumber : i \in {1, 4, 6, 8, 14, 19}} \cup {<<"9",".","9">>}

NTBuildNumbers ==
  {WindowsVersions[i].buildNumber : i \in {1, 4, 8, 14, 15, 19}} \cup {<<"1">>}

ProductTypes == {<<"W","i","n","N","T">>, <<"S","e","r","v","e","r","N","T">>, <<"L","a","n","m","a","n","N","T">>}

LegacyVersions ==
  {<<"4",".","1","0",".","2","2","2","2">>, <<"4",".","0",".","9","5","0">>, <<"6",".","1",".","7","6","0","1">>, <<"4",".","1","0",".","2","2","2","2",".","1">>,
   <<"9",".","9",".","9">>, <<"4",".","1","0">>, <<"4">>, <<".">>}

\* system.reg with its three sections in the order Wine writes them
SystemRegFile(version, build, type, legacy) ==
  [is_open |-> TRUE,
   lines |-> <<header_line(RegKeyNameNT)>>
             \o optional_line(RegNameNTVersion, version)
             \o optional_line(RegNameNTBuildNumber, build)
             \o <<<<>>, header_line(RegKeyName9x)>>
             \o optional_line(RegName9xVersion, legacy)
             \o <<<<>>, header_line(RegKeyType)>>
             \o optional_line(RegNameProductType, type),
   nl |-> TRUE]

SystemRegFiles ==
  {NoFile}
  \cup {SystemRegFile(<<v>>, b, t, l) :
          v \in NTVersions, b \in Optional(NTBuildNumbers),
          t \in Optional(ProductTypes), l \in {<<>>, <<<<"4",".","1","0",".","2","2","2","2">>>>}}
  \cup {SystemRegFile(<<>>, b, t, l) :
          b \in {<<>>, <<WindowsVersions[4].buildNumber>>},
          t \in {<<>>, <<<<"W","i","n","N","T">>>>}, l \in Optional(LegacyVersions)}

\* the directories and regular files of a complete bottle at prefix
bottle_on_disk(prefix) ==
  [dirs  |-> {prefix, build_filename(prefix, DosDevices)},
   files |-> {build_filename(prefix, SystemReg), build_filename(prefix, UserReg)}]

\* lines of a file handed to the registry reader
ReaderKey == <<"[","K","]">>
ReaderLines ==
  {ReaderKey, <<"[","J","]">>, <<>>, <<"#","m","=","1">>,
   value_line(<<"a">>, <<"x">>), value_line(<<"b">>, <<"y">>),
   value_line(<<"a">>, <<"p","\\","\"","q">>), <<"z">> \o value_line(<<"a">>, <<"w">>)}

MaxLines == 3

RECURSIVE LinesUpTo(_)
LinesUpTo(n) ==
  IF n = 0 THEN {<<>>}
  ELSE LET shorter == LinesUpTo(n - 1)
       IN shorter \cup {Append(ls, l) : ls \in {x \in shorter : Len(x) = n - 1},
                                        l \in ReaderLines}

\* a file ends with a newline or with a non-empty unterminated line
OtherRegFiles ==
  {NoFile}
  \cup {[is_open |-> TRUE, lines |-> ls, nl |-> nl] :
          ls \in LinesUpTo(MaxLines), nl \in BOOLEAN}

WellFormedFile(f) ==
  f.is_open => /\ (f.lines = <<>> => ~f.nl)
               /\ (~f.nl /\ f.lines # <<>> => f.lines[Len(f.lines)] # <<>>)

ReaderKeys == {ReaderKey, <<"[","Q","]">>}
ReaderNames == {<<"a">>, <<"b">>}

(***************************************************************************)
(* State machine                                                           *)
(***************************************************************************)
NoResult ==
  [op |-> "none", key |-> <<>>, name |-> <<>>, ret |-> returns(<<>>), opened |-> <<>>]

\* a bottle on disk, nothing called yet
Init ==
  /\ prefix_path \in PrefixPaths
  /\ user_reg \in UserRegFiles
  /\ system_reg \in SystemRegFiles
  /\ other_reg = NoFile
  /\ disk = bottle_on_disk(prefix_path)
  /\ result = NoResult

\* a caller asks for the Windows version of the bottle
GetWindowsVersion ==
  /\ result.op = "none"
  /\ LET r == get_windows_version(prefix_path)
     IN result' = [op |-> "get_windows_version", key |-> <<>>, name |-> <<>>,
                   ret |-> r.ret, opened |-> r.opened]
  /\ UNCHANGED on_disk

Next == GetWindowsVersion

Spec == Init /\ [][Next]_vars

\* a registry file on disk, nothing called yet
InitReader ==
  /\ prefix_path = <<"/","h","/","b","1">>
  /\ user_reg = NoFile
  /\ system_reg = NoFile
  /\ other_reg \in {f \in OtherRegFiles : WellFormedFile(f)}
  /\ disk = [dirs |-> {}, files |-> {OtherRegPath}]
  /\ result = NoResult

\* a caller reads one value of a key
GetRegValue ==
  /\ result.op = "none"
  /\ \E key_name \in ReaderKeys, value_name \in ReaderNames :
       result' = [op |-> "get_reg_value", key |-> key_name, name |-> value_name,
                  ret |-> get_reg_value(OtherRegPath, key_name, value_name),
                  opened |-> <<OtherRegPath>>]
  /\ UNCHANGED on_disk

\* a caller lists the lines of a key
GetRegKeys ==
  /\ result.op = "none"
  /\ \E key_name \in ReaderKeys :
       result' = [op |-> "get_reg_keys", key |-> key_name, name |-> <<>>,
                  ret |-> get_reg_keys(OtherRegPath, key_name),
                  opened |-> <<OtherRegPath>>]
  /\ UNCHANGED on_disk

NextReader == GetRegValue \/ GetRegKeys

SpecReader == InitReader /\ [][NextReader]_vars

(***************************************************************************)
(* The four reading operations on one registry file                        *)
(***************************************************************************)
\* substrings used as inclusion and exclusion filters, and meta value names
FilterS == <<"S">>
FilterM == <<"M">>
MetaNames == {<<"m">>, <<"n">>}

\* lines of the file: a header, a blank line, a meta line, a value that
\* holds the filter, a name that holds the filter, a value with a second '=',
\* a value whose escape sequence decodes to the filter, and a line with the
\* meta pattern in its middle
RegistryLines ==
  {ReaderKey, <<>>, <<"#","m","=","1">>,
   value_line(<<"a">>, <<"S">>), value_line(<<"S">>, <<"x">>),
   value_line(<<"a">>, <<"S","=","M">>), value_line(<<"b">>, <<"\\","x","5","3">>),
   <<"x","#","m","=">> \o <<"\"">> \o <<"2">> \o <<"\"">>}

MaxRegistryLines == 3

RECURSIVE RegistryLinesUpTo(_)
RegistryLinesUpTo(n) ==
  IF n = 0 THEN {<<>>}
  ELSE LET shorter == RegistryLinesUpTo(n - 1)
       IN shorter \cup {Append(ls, l) : ls \in {x \in shorter : Len(x) = n - 1},
                                        l \in RegistryLines}

RegistryFiles ==
  {NoFile}
  \cup {[is_open |-> TRUE, lines |-> ls, nl |-> nl] :
          ls \in RegistryLinesUpTo(MaxRegistryLines), nl \in BOOLEAN}

\* a registry file on disk, or none that opens, nothing called yet
InitRegistry ==
  /\ prefix_path = <<"/","h","/","b","1">>
  /\ user_reg = NoFile
  /\ system_reg = NoFile
  /\ other_reg \in {f \in RegistryFiles : WellFormedFile(f)}
  /\ disk = [dirs |-> {}, files |-> {OtherRegPath}]
  /\ result = NoResult

\* a caller lists the data of the lines of a key, with optional filters
GetRegKeysData ==
  /\ result.op = "none"
  /\ \E key_name \in ReaderKeys, key_value_filter \in {<<>>, FilterS},
        key_name_ignore_filter \in {<<>>, FilterM} :
       result' = [op |-> "get_reg_keys_data", key |-> key_name, name |-> <<>>,
                  key_value_filter |-> key_value_filter,
                  key_name_ignore_filter |-> key_name_ignore_filter,
                  ret |-> get_reg_keys_data_filter_ignore(OtherRegPath, key_name,
                            key_value_filter, key_name_ignore_filter),
                  opened |-> <<OtherRegPath>>]
  /\ UNCHANGED on_disk

\* a caller reads a meta value of the file
GetRegMetaData ==
  /\ result.op = "none"
  /\ \E meta_value_name \in MetaNames :
       result' = [op |-> "get_reg_meta_data", key |-> <<>>, name |-> meta_value_name,
                  ret |-> get_reg_meta_data(OtherRegPath, meta_value_name),
                  opened |-> <<OtherRegPath>>]
  /\ UNCHANGED on_disk

NextRegistry == GetRegValue \/ GetRegKeys \/ GetRegKeysData \/ GetRegMetaData

SpecRegistry == InitRegistry /\ [][NextRegistry]_vars

(***************************************************************************)
(* The configuration operations on the user.reg of a bottle                *)
(***************************************************************************)
\* #arch=value, the form of the file-level meta line
arch_line(o) == IF o = <<>> THEN <<>> ELSE <<<<"#","a","r","c","h","=">> \o o[1]>>

Archs == {<<"w","i","n","3","2">>, <<"w","i","n","6","4">>, <<"w","i","n","1","6">>, <<>>}

Audios == {<<"p","u","l","s","e">>, <<"a","l","s","a">>, <<"o","s","s">>, <<"c","o","r","e","a","u","d","i","o">>, <<"d","i","s","a","b","l","e","d">>, <<"j","a","c","k">>}

Desktops == {RegNameVirtualDesktopDefault, <<"C","u","s","t","o","m">>}

\* the resolutions stored under [Software\\Wine\\Explorer\\Desktops]
Resolutions ==
  {<<>>,
   <<value_line(RegNameVirtualDesktopDefault, <<"1","0","2","4","x","7","6","8">>)>>,
   <<value_line(<<"C","u","s","t","o","m">>, <<"8","0","0","x","6","0","0">>)>>,
   <<value_line(RegNameVirtualDesktopDefault, <<"1","0","2","4","x","7","6","8">>),
     value_line(<<"C","u","s","t","o","m">>, <<"8","0","0","x","6","0","0">>)>>}

\* the entries of [Software\\Wine\\MenuFiles]: a start menu link, a link of
\* a merged menu file, and a desktop link
MenuFiles ==
  {<<>>,
   <<value_line(<<"/","d","/","a",".","d","e","s","k","t","o","p">>, <<"C",":","\\","\\","S","t","a","r","t"," ","M","e","n","u","\\","\\","a",".","l","n","k">>)>>,
   <<value_line(<<"/","m","/","a","p","p","l","i","c","a","t","i","o","n","s","-","m","e","r","g","e","d","/","a",".","m","e","n","u">>, <<"C",":","\\","\\","S","t","a","r","t"," ","M","e","n","u","\\","\\","a",".","l","n","k">>),
     value_line(<<"/","d","/","b",".","d","e","s","k","t","o","p">>, <<"C",":","\\","\\","D","e","s","k","t","o","p","\\","\\","b",".","l","n","k">>),
     value_line(<<"/","d","/","a",".","d","e","s","k","t","o","p">>, <<"C",":","\\","\\","S","t","a","r","t"," ","M","e","n","u","\\","\\","a",".","l","n","k">>)>>}

\* user.reg with its meta line and its sections in the order Wine writes them
ConfigRegFile(arch, audio, desktop, resolutions, menu) ==
  [is_open |-> TRUE,
   lines |-> arch_line(arch)
             \o <<<<>>, header_line(RegKeyAudio)>>
             \o optional_line(RegNameAudio, audio)
             \o <<<<>>, header_line(RegKeyVirtualDesktop)>>
             \o optional_line(RegNameVirtualDesktop, desktop)
             \o <<<<>>, header_line(RegKeyVirtualDesktopResolution)>>
             \o resolutions
             \o <<<<>>, header_line(RegKeyMenuFiles)>>
             \o menu,
   nl |-> TRUE]

ConfigRegFiles ==
  {NoFile}
  \cup {ConfigRegFile(arch, audio, desktop, resolutions, menu) :
          arch \in Optional(Archs), audio \in Optional(Audios),
          desktop \in Optional(Desktops), resolutions \in Resolutions,
          menu \in MenuFiles}

\* a bottle on disk, nothing called yet
InitConfig ==
  /\ prefix_path \in PrefixPaths
  /\ user_reg \in ConfigRegFiles
  /\ system_reg = NoFile
  /\ other_reg = NoFile
  /\ disk = bottle_on_disk(prefix_path)
  /\ result = NoResult

\* the outcome of a call that reads user.reg of the bottle
config_result(op, ret) ==
  [op |-> op, key |-> <<>>, name |-> <<>>, ret |-> ret,
   opened |-> <<build_filename(prefix_path, UserReg)>>]

GetWindowsBitness ==
  /\ result.op = "none"
  /\ result' = config_result("get_windows_bitness", get_windows_bitness(prefix_path))
  /\ UNCHANGED on_disk

GetAudioDriver ==
  /\ result.op = "none"
  /\ result' = config_result("get_audio_driver", get_audio_driver(prefix_path))
  /\ UNCHANGED on_disk

GetVirtualDesktop ==
  /\ result.op = "none"
  /\ result' = config_result("get_virtual_desktop", get_virtual_desktop(prefix_path))
  /\ UNCHANGED on_disk

GetMenuItems ==
  /\ result.op = "none"
  /\ result' = config_result("get_menu_items", get_menu_items(prefix_path))
  /\ UNCHANGED on_disk

NextConfig == GetWindowsBitness \/ GetAudioDriver \/ GetVirtualDesktop \/ GetMenuItems

SpecConfig == InitConfig /\ [][NextConfig]_vars

(***************************************************************************)
(* The status check of a bottle that may be incomplete on disk             *)
(***************************************************************************)
\* system.reg: none that opens, one without any version, ones with a legacy
\* version only, and a Windows 7 one
StatusSystemRegFiles ==
  {NoFile}
  \cup {SystemRegFile(<<>>, <<>>, <<>>, l) : l \in Optional(LegacyVersions)}
  \cup {SystemRegFile(<<WindowsVersions[4].versionNumber>>,
                      <<WindowsVersions[4].buildNumber>>,
                      <<WindowsVersions[4].productType>>, <<>>)}

StatusUserRegFiles ==
  {NoFile, UserRegFile(<<>>, <<>>), UserRegFile(<<WindowsVersions[4].version>>, <<>>)}

\* what may be on disk of a bottle: a file that opens exists, and nothing
\* exists inside a directory that does not
DisksOf(prefix, user, system) ==
  {d \in [dirs  : SUBSET {prefix, build_filename(prefix, DosDevices)},
          files : SUBSET {build_filename(prefix, SystemReg),
                          build_filename(prefix, UserReg)}] :
     /\ prefix \notin d.dirs => d.dirs = {} /\ d.files = {}
     /\ user.is_open => build_filename(prefix, UserReg) \in d.files
     /\ system.is_open => build_filename(prefix, SystemReg) \in d.files}

\* a bottle, complete or not, on disk, nothing called yet
InitStatus ==
  /\ prefix_path \in PrefixPaths
  /\ user_reg \in StatusUserRegFiles
  /\ system_reg \in StatusSystemRegFiles
  /\ other_reg = NoFile
  /\ disk \in DisksOf(prefix_path, user_reg, system_reg)
  /\ result = NoResult

\* a caller asks whether the bottle is usable
GetBottleStatus ==
  /\ result.op = "none"
  /\ result' = [op |-> "get_bottle_status", key |-> <<>>, name |-> <<>>,
                ret |-> get_bottle_status(prefix_path), opened |-> <<>>]
  /\ UNCHANGED on_disk

NextStatus == GetBottleStatus

SpecStatus == InitStatus /\ [][NextStatus]_vars

(***************************************************************************)
(* The listing of the bottles of a directory                               *)
(***************************************************************************)
HomeDir == <<"/","h">>
BottlesDir == <<"/","h","/","w">>

\* names of bottle directories, two of them equal but for the case
BottleNames == {<<"Z","e","t","a">>, <<"a","l","p","h","a">>, <<"B","e","t","a">>, <<"b","e","t","a">>}

\* the trees on disk: the home directory, with or without the default bottle
\* and the bottles directory, which holds bottles and perhaps a regular file
BottleTrees ==
  {[dirs |-> {HomeDir} \cup top \cup {build_filename(BottlesDir, name) : name \in names},
    files |-> notes] :
     top \in SUBSET {DefaultBottleWineDir, BottlesDir},
     names \in SUBSET BottleNames,
     notes \in SUBSET {build_filename(BottlesDir, <<"n","o","t","e","s">>)}}

\* directories on disk, nothing called yet
InitPaths ==
  /\ prefix_path = DefaultBottleWineDir
  /\ user_reg = NoFile
  /\ system_reg = NoFile
  /\ other_reg = NoFile
  /\ disk \in {d \in BottleTrees :
                 BottlesDir \notin d.dirs => d.dirs \subseteq {HomeDir, DefaultBottleWineDir}
                                             /\ d.files = {}}
  /\ result = NoResult

\* a caller lists the bottles of a directory
GetBottlesPaths ==
  /\ result.op = "none"
  /\ \E dir_path \in {BottlesDir, HomeDir}, display_default_wine_machine \in BOOLEAN :
       \E ret \in get_bottles_paths(dir_path, display_default_wine_machine) :
         result' = [op |-> "get_bottles_paths", key |-> dir_path, name |-> <<>>,
                    display_default_wine_machine |-> display_default_wine_machine,
                    ret |-> ret, opened |-> <<>>]
  /\ UNCHANGED on_disk

NextPaths == GetBottlesPaths

SpecPaths == InitPaths /\ [][NextPaths]_vars

(***************************************************************************)
(* The escape decoder on one line of a registry file                       *)
(***************************************************************************)
MaxInput == 3
MaxDigits == 5

\* the strings of at most n characters of a set
RECURSIVE strings_over(_, _)
strings_over(chars, n) ==
  IF n = 0 THEN {<<>>}
  ELSE LET shorter == strings_over(chars, n - 1)
       IN shorter \cup {Append(s, c) : s \in {x \in shorter : Len(x) = n - 1},
                                       c \in chars}

\* lines handed to the decoder: short lines of backslashes, the letters of the
\* control escapes, x, a digit, a letter of no escape and a byte above 127;
\* and a backslash or a backslash and x before a run of octal digits, decimal
\* digits, hex digits and a letter that is no digit
DecoderInputs ==
  strings_over({"\\", "a", "b", "e", "f", "n", "r", "t", "v", "x", "1", "q", chr(233)},
               MaxInput)
  \cup {prefix \o digits :
          prefix \in {<<"\\">>, <<"\\", "x">>},
          digits \in strings_over({"0", "1", "4", "8", "f", "q"}, MaxDigits)}

\* a line on disk, not decoded yet
InitDecoder ==
  /\ prefix_path = <<"/","h","/","b","1">>
  /\ user_reg = NoFile
  /\ system_reg = NoFile
  /\ other_reg \in {[is_open |-> TRUE, lines |-> <<src>>, nl |-> TRUE] :
                      src \in DecoderInputs}
  /\ disk = [dirs |-> {}, files |-> {OtherRegPath}]
  /\ result = NoResult

\* the line is decoded
UnescapeRegKeyData ==
  /\ result.op = "none"
  /\ LET src == other_reg.lines[1]
     IN result' = [op |-> "unescape_reg_key_data", key |-> src, name |-> <<>>,
                   ret |-> returns(unescape_reg_key_data(src)), opened |-> <<>>]
  /\ UNCHANGED on_disk

NextDecoder == UnescapeRegKeyData

SpecDecoder == InitDecoder /\ [][NextDecoder]_vars

(***************************************************************************)
(* Calls that follow each other while the registry files change            *)
(***************************************************************************)
\* what is kept of the call before the last one
last_call ==
  IF result.op = "none" THEN [op |-> "none"]
  ELSE [op |-> result.op, key |-> result.key, name |-> result.name,
        ret |-> result.ret, read |-> result.read]

\* user.reg and system.reg as they may be found at a call: each missing or
\* unreadable, without a version, or of a Windows 7 bottle
CallFiles ==
  {NoFile, UserRegFile(<<>>, <<>>), UserRegFile(<<WindowsVersions[4].version>>, <<>>)}
  \X {NoFile, SystemRegFile(<<>>, <<>>, <<>>, <<>>),
      SystemRegFile(<<WindowsVersions[4].versionNumber>>,
                    <<WindowsVersions[4].buildNumber>>,
                    <<WindowsVersions[4].productType>>, <<>>)}

\* a bottle on disk, nothing called yet
InitCalls ==
  /\ prefix_path = <<"/","h","/","b","1">>
  /\ \E files \in CallFiles : user_reg = files[1] /\ system_reg = files[2]
  /\ other_reg = NoFile
  /\ disk = bottle_on_disk(prefix_path)
  /\ result = NoResult

\* a caller reads the Version value of user.reg or the CurrentVersion value
\* of system.reg, whatever was called before
CallGetRegValue ==
  /\ \E lookup \in {<<build_filename(prefix_path, UserReg), RegKeyWine,
                      RegNameWindowsVersion>>,
                    <<build_filename(prefix_path, SystemReg), RegKeyNameNT,
                      RegNameNTVersion>>} :
       result' = [op |-> "get_reg_value", key |-> lookup[2], name |-> lookup[3],
                  ret |-> get_reg_value(lookup[1], lookup[2], lookup[3]),
                  opened |-> <<lookup[1]>>,
                  read |-> <<user_reg, system_reg>>, previous |-> last_call]
  /\ UNCHANGED on_disk

\* Helper::get_windows_version handing back what it returned the last time
CallGetWindowsVersionCached ==
  /\ LET r == get_windows_version(prefix_path)
     IN result' = [op |-> "get_windows_version", key |-> <<>>, name |-> <<>>,
                   ret |-> IF result.op = "get_windows_version"
                             THEN result.ret ELSE r.ret,
                   opened |-> r.opened,
                   read |-> <<user_reg, system_reg>>, previous |-> last_call]
  /\ UNCHANGED on_disk

\* a caller asks for the Windows version, whatever was called before
CallGetWindowsVersion ==
  /\ LET r == get_windows_version(prefix_path)
     IN result' = [op |-> "get_windows_version", key |-> <<>>, name |-> <<>>,
                   ret |-> r.ret, opened |-> r.opened,
                   read |-> <<user_reg, system_reg>>, previous |-> last_call]
  /\ UNCHANGED on_disk

\* Wine or the user rewrites, removes or restores the registry files
ChangeRegistryFiles ==
  /\ \E files \in CallFiles \ {<<user_reg, system_reg>>} :
       user_reg' = files[1] /\ system_reg' = files[2]
  /\ UNCHANGED <<prefix_path, other_reg, disk, result>>

NextCalls == CallGetRegValue \/ CallGetWindowsVersion \/ ChangeRegistryFiles

SpecCalls == InitCalls /\ [][NextCalls]_vars

(***************************************************************************)
(* Properties of the Windows version resolver (checked under Spec)         *)
(***************************************************************************)
Called == result.op = "get_windows_version"
Returned(windows) == result.ret.ok /\ result.ret.value = windows

UserRegPath == build_filename(prefix_path, UserReg)
SystemRegPath == build_filename(prefix_path, SystemReg)

\* what the registry reader yields for the values the resolver asks for
FoundUserVersion == get_reg_value(UserRegPath, RegKeyWine, RegNameWindowsVersion).value
FoundNTVersion == get_reg_value(SystemRegPath, RegKeyNameNT, RegNameNTVersion).value
FoundNTBuildNumber == get_reg_value(SystemRegPath, RegKeyNameNT, RegNameNTBuildNumber).value
FoundProductType == get_reg_value(SystemRegPath, RegKeyType, RegNameProductType).value
FoundLegacyVersion == get_reg_value(SystemRegPath, RegKeyName9x, RegName9xVersion).value

Rows == 1..Len(WindowsVersions)
FirstOf(rows) == CHOOSE i \in rows : \A j \in rows : i <= j
WindowsOf(rows) == WindowsVersions[FirstOf(rows)].windows

TagRows == {i \in Rows : WindowsVersions[i].version = FoundUserVersion}
VersionRows == {i \in Rows : WindowsVersions[i].versionNumber = FoundNTVersion}
VersionBuildRows == {i \in VersionRows : WindowsVersions[i].buildNumber = FoundNTBuildNumber}
TypeRows == {i \in Rows : WindowsVersions[i].productType = FoundProductType}

V61 == WindowsVersions[5].versionNumber
B7601 == WindowsVersions[5].buildNumber
ServerNT == WindowsVersions[4].productType
WinNT == WindowsVersions[5].productType
TagWin7 == WindowsVersions[5].version

\* the user registry opens and yields no tag of the table
NoTagMatch == user_reg.is_open /\ (FoundUserVersion = <<>> \/ TagRows = {})

\* the resolver was called and went on to the NT values of the system registry
NTBranch == Called /\ NoTagMatch /\ system_reg.is_open /\ FoundNTVersion # <<>>

\* the resolver was called and went on to the legacy value
LegacyBranch ==
  /\ Called /\ NoTagMatch /\ system_reg.is_open
  /\ FoundNTVersion = <<>> /\ FoundLegacyVersion # <<>>

CouldNotDetermine ==
  /\ ~result.ret.ok
  /\ result.ret.what = "runtime_error"
  /\ starts_with(result.ret.msg, MsgCouldNotDetermine)

Contains(s, part) ==
  \E i \in 1..(Len(s) - Len(part) + 1) : SubSeq(s, i, i + Len(part) - 1) = part

\* the last component of a path
FolderOf(path) ==
  LET slashes == {i \in 1..Len(path) : path[i] = "/"}
  IN IF slashes = {} THEN path
     ELSE SubSeq(path, (CHOOSE i \in slashes : \A j \in slashes : i >= j) + 1, Len(path))

C1_Case ==
  /\ NTBranch
  /\ FoundNTVersion = V61 /\ FoundNTBuildNumber = B7601 /\ FoundProductType = <<>>

\* C1 as stated: no matching Version tag in the user registry and a system
\* registry with CurrentVersion=6.1, CurrentBuildNumber=7601 and no
\* ProductType resolve to Windows7.
C1_Windows7 == C1_Case => Returned("Windows7")

\* C1, amended: with no matching tag, CurrentVersion=6.1, CurrentBuildNumber=7601
\* and no ProductType the resolver returns Windows2008R2, the first row of the
\* table with that version and build number.
C1_FirstBuildMatch ==
  C1_Case => /\ Returned("Windows2008R2")
             /\ Returned(WindowsOf(VersionBuildRows))

C1_Witness == C1_Case /\ result.ret.ok

C2_Case == NTBranch /\ VersionBuildRows # {}

\* C2 as stated: in the NT branch, when version and build number equal those
\* of some row the resolver returns a Windows value and does not fail; with a
\* product type that no version+build row has it returns the first
\* version+build row.
C2_NeverFails ==
  C2_Case =>
    /\ result.ret.ok
    /\ (FoundProductType # <<>> /\ VersionBuildRows \cap TypeRows = {}
          => Returned(WindowsOf(VersionBuildRows)))

\* C2, amended: in the NT branch, when version and build number equal those of
\* some row: with no product type found the first version+build row is
\* returned; with a product type found the first version+build row of that
\* type is returned; when no version+build row has the found type the first
\* row with the version and that type is returned, and when there is none the
\* resolver fails with the could-not-determine error.
C2_TypeIsBinding ==
  C2_Case =>
    IF FoundProductType = <<>>
      THEN Returned(WindowsOf(VersionBuildRows))
    ELSE IF VersionBuildRows \cap TypeRows # {}
      THEN Returned(WindowsOf(VersionBuildRows \cap TypeRows))
    ELSE IF VersionRows \cap TypeRows # {}
      THEN Returned(WindowsOf(VersionRows \cap TypeRows))
    ELSE CouldNotDetermine

C2_Witness ==
  /\ C2_Case /\ FoundProductType # <<>>
  /\ VersionBuildRows \cap TypeRows = {}
  /\ ~result.ret.ok

\* the legacy value split at its dots
LegacyParts == split(FoundLegacyVersion, ".")
LegacyRows ==
  IF Len(LegacyParts) < 3 THEN {}
  ELSE {i \in Rows :
          /\ WindowsVersions[i].versionNumber
               = LegacyParts[1] \o <<".">> \o LegacyParts[2]
          /\ WindowsVersions[i].buildNumber = LegacyParts[3]}

\* C3: in the legacy branch, for every non-empty VersionNumber with any
\* number of dot-separated components, the resolver returns the row whose
\* version number is major.minor and whose build number is the third
\* component, otherwise the default Windows version; it never fails.
C3_LegacyNeverFails ==
  LegacyBranch =>
    /\ result.ret.ok
    /\ Returned(IF LegacyRows # {} THEN WindowsOf(LegacyRows) ELSE WindowsOs)

C4_Case == NTBranch /\ FoundProductType # <<>> /\ VersionBuildRows \cap TypeRows # {}

\* C4: in the NT branch with a product type found, the first row matching
\* version, build number and product type is returned, whatever rows match
\* version and build number only; 6.1, 7601, ServerNT gives Windows2008R2.
C4_FullMatchPreferred ==
  C4_Case =>
    /\ Returned(WindowsOf(VersionBuildRows \cap TypeRows))
    /\ (FoundNTVersion = V61 /\ FoundNTBuildNumber = B7601 /\ FoundProductType = ServerNT
          => Returned("Windows2008R2"))

\* a row matching version and build only precedes the row that is returned
C4_Witness ==
  /\ C4_Case
  /\ FirstOf(VersionBuildRows) < FirstOf(VersionBuildRows \cap TypeRows)
  /\ Returned("Windows7")

C5_Case == Called /\ user_reg.is_open /\ FoundUserVersion # <<>> /\ TagRows # {}

\* C5: a non-empty Version value of the user registry that is the tag of a row
\* makes the resolver return the first such row, whatever the system registry
\* holds; the system registry is opened only when there is no such row; win7
\* gives Windows7.
C5_UserTagWins ==
  /\ C5_Case =>
       /\ Returned(WindowsOf(TagRows))
       /\ (FoundUserVersion = TagWin7 => Returned("Windows7"))
  /\ Called /\ (\E i \in 1..Len(result.opened) : result.opened[i] = SystemRegPath)
       => ~C5_Case

\* the tag resolves although the system registry cannot be opened
C5_Witness ==
  /\ C5_Case /\ FoundUserVersion = TagWin7
  /\ ~system_reg.is_open
  /\ Returned("Windows7")

C6_Rows ==
  IF FoundProductType = <<>> THEN VersionRows ELSE VersionRows \cap TypeRows

C6_Case == NTBranch /\ VersionBuildRows = {} /\ C6_Rows # {}

\* C6: in the NT branch, when no row matches version and build number, the
\* first row whose version matches and whose product type is the found one is
\* returned, or the first row whose version matches when no type was found.
C6_VersionOnlyFallback == C6_Case => Returned(WindowsOf(C6_Rows))

\* a row of another product type with the same version precedes the result
C6_Witness ==
  /\ C6_Case /\ FoundProductType # <<>>
  /\ FirstOf(VersionRows) < FirstOf(C6_Rows)
  /\ result.ret.ok

C7_Case ==
  /\ Called /\ user_reg.is_open /\ system_reg.is_open
  /\ FoundUserVersion = <<>> /\ FoundNTVersion = <<>> /\ FoundLegacyVersion = <<>>

\* C7: when both registries open and yield neither a Version tag, nor an NT
\* CurrentVersion, nor a legacy VersionNumber, the resolver fails with the
\* could-not-determine error, whose message contains the bottle's folder name
\* and its full prefix path; no Windows value is returned.
C7_FailsNamingBottle ==
  C7_Case =>
    /\ CouldNotDetermine
    /\ Contains(result.ret.msg, FolderOf(prefix_path))
    /\ Contains(result.ret.msg, MsgFullLocation \o prefix_path)

C7_Witness == C7_Case /\ ~result.ret.ok /\ FolderOf(prefix_path) # prefix_path

(***************************************************************************)
(* Properties of the registry reader (checked under SpecReader)            *)
(***************************************************************************)
\* the first line that starts with the key, 0 when there is none
HeaderOf(lines, key_name) ==
  LET hits == {i \in 1..Len(lines) : starts_with(lines[i], key_name)}
  IN IF hits = {} THEN 0
     ELSE CHOOSE i \in hits : \A j \in hits : i <= j

\* the lines after the header up to the first blank line or the end of file
SectionOf(lines, key_name) ==
  LET h == HeaderOf(lines, key_name)
      blanks == {j \in (h + 1)..Len(lines) : lines[j] = <<>>}
      end == IF blanks = {} THEN Len(lines) + 1
             ELSE CHOOSE j \in blanks : \A k \in blanks : j <= k
  IN IF h = 0 THEN <<>> ELSE SubSeq(lines, h + 1, end - 1)

PatternOf(value_name) == <<"\"">> \o value_name \o <<"\"", "=">>

\* the line is "value_name"="Value"
IsValueLine(line, value_name) ==
  /\ starts_with(line, PatternOf(value_name) \o <<"\"">>)
  /\ Len(line) >= Len(value_name) + 5
  /\ line[Len(line)] = "\""

\* Value of a line "value_name"="Value"
ValueOf(line, value_name) == SubSeq(line, Len(value_name) + 5, Len(line) - 1)

ValueRead ==
  /\ result.op = "get_reg_value"
  /\ other_reg.is_open
  /\ HeaderOf(other_reg.lines, result.key) # 0

\* C8: for a file that opens, when the section of the matched key holds no
\* line with "value_name"=, get_reg_value returns the empty string.
C8_EmptyOutsideSection ==
  LET section == SectionOf(other_reg.lines, result.key)
  IN ValueRead /\ (\A i \in 1..Len(section) :
                     ~Contains(section[i], PatternOf(result.name)))
       => result.ret.ok /\ result.ret.value = <<>>

\* C9: for a file that opens and holds the key, when a line
\* "value_name"="Value" is in the key's section, get_reg_value returns the
\* Value of the first such line: the text after the = without its
\* surrounding quotes.
C9_ValueOfFirstLine ==
  LET section == SectionOf(other_reg.lines, result.key)
      hits == {i \in 1..Len(section) : IsValueLine(section[i], result.name)}
  IN ValueRead /\ hits # {}
       => /\ result.ret.ok
          /\ result.ret.value = ValueOf(section[FirstOf(hits)], result.name)

\* C10: for a file that opens, get_reg_keys returns, in file order and
\* verbatim, the lines between the first header of the key and the first
\* blank line after it or the end of the file, without the lines that start
\* with #, whether or not the last line of the file ends with a newline.
C10_WholeSection ==
  result.op = "get_reg_keys" /\ other_reg.is_open
    => /\ result.ret.ok
       /\ result.ret.value
            = SelectSeq(SectionOf(other_reg.lines, result.key),
                        LAMBDA line : ~starts_with(line, <<"#">>))

(***************************************************************************)
(* Properties of the reading operations (checked under SpecRegistry)       *)
(***************************************************************************)
KeysDataRead == result.op = "get_reg_keys_data" /\ other_reg.is_open

\* the call passed neither an inclusion nor an exclusion filter
Unfiltered ==
  result.key_value_filter = <<>> /\ result.key_name_ignore_filter = <<>>

\* the whole portion of a line after its first '=', <<>> without a '='
AfterFirstEquals(line) ==
  IF find(line, <<"=">>) = npos THEN <<>>
  ELSE substr(line, find(line, <<"=">>) + 1)

\* the element a section line stands for: the portion of the unescaped line
\* after its first '=', without quotes
DataOf(line) == erase_remove(AfterFirstEquals(unescape_reg_key_data(line)), "\"")

\* a section line that has data: it does not start with # and holds a '='
HasData(line) ==
  ~starts_with(line, <<"#">>) /\ find(unescape_reg_key_data(line), <<"=">>) # npos

DataOfLines(lines) ==
  LET kept == SelectSeq(lines, HasData)
  IN [i \in 1..Len(kept) |-> DataOf(kept[i])]

\* C11: for a file that opens and ends with a newline, get_reg_keys_data
\* without filters returns, per section line that does not start with # and
\* holds a '=', the whole portion of the unescaped line after its first '='
\* with the quotes stripped, also when that portion holds '=' characters.
C11_WholePortion ==
  KeysDataRead /\ Unfiltered /\ other_reg.nl
    => /\ result.ret.ok
       /\ result.ret.value = DataOfLines(SectionOf(other_reg.lines, result.key))

\* the value of the line, the part after its first '=', passes the filters
ValuePasses(line, key_value_filter, key_name_ignore_filter) ==
  LET value == AfterFirstEquals(unescape_reg_key_data(line))
  IN /\ (key_value_filter = <<>> \/ find(value, key_value_filter) # npos)
     /\ (key_name_ignore_filter = <<>> \/ find(value, key_name_ignore_filter) = npos)

\* the reads of the file without the lines after the key's header whose
\* value does not pass the filters; blank lines stay, they end the section
ReadsPassing(file, key_name, key_value_filter, key_name_ignore_filter) ==
  LET reads == getline(file)
      h == HeaderOf(file.lines, key_name)
      stays(i) == \/ h = 0
                  \/ i <= h
                  \/ file.lines[i] = <<>>
                  \/ ValuePasses(file.lines[i], key_value_filter, key_name_ignore_filter)
      kept == SelectSeq([i \in 1..Len(reads) |-> i], stays)
  IN [j \in 1..Len(kept) |-> reads[kept[j]]]

\* C12: for a file that opens, get_reg_keys_data with filters returns what
\* it returns without filters on the file reduced to the section lines whose
\* value (the part after '=') contains the inclusion filter, if one is given,
\* and does not contain the exclusion filter, if one is given; empty filters
\* keep every line.
C12_FiltersOnValue ==
  KeysDataRead
    => /\ result.ret.ok
       /\ result.ret.value
            = get_reg_keys_data_loop(
                ReadsPassing(other_reg, result.key, result.key_value_filter,
                             result.key_name_ignore_filter),
                1, FALSE, result.key, <<>>, <<>>)

\* one of the three operations that read the lines of a key
KeyRead == result.op \in {"get_reg_value", "get_reg_keys", "get_reg_keys_data"}

\* C13: for a file that opens and contains no line starting with the key,
\* get_reg_value returns the empty string and get_reg_keys and
\* get_reg_keys_data return the empty list; none of them fails.
C13_AbsentKeyIsEmpty ==
  KeyRead /\ other_reg.is_open /\ HeaderOf(other_reg.lines, result.key) = 0
    => result.ret.ok /\ result.ret.value = <<>>

\* get_reg_value was called for a key the file does not hold, on a file with
\* a line that holds the value name
C13_Witness ==
  /\ result.op = "get_reg_value"
  /\ other_reg.is_open
  /\ HeaderOf(other_reg.lines, result.key) = 0
  /\ \E i \in 1..Len(other_reg.lines) :
       Contains(other_reg.lines[i], PatternOf(result.name))
  /\ result.ret.ok /\ result.ret.value = <<>>

\* one of the four reading operations
FileRead ==
  result.op \in {"get_reg_value", "get_reg_keys", "get_reg_keys_data", "get_reg_meta_data"}

\* C14: when the registry file cannot be opened, get_reg_value, get_reg_keys,
\* get_reg_keys_data and get_reg_meta_data fail with the runtime error
\* "Could not open registry file!" and return nothing; a result, empty or
\* not, is returned only for a file that opened.
C14_UnopenedFails ==
  FileRead
    => /\ ~other_reg.is_open
            => /\ ~result.ret.ok
               /\ result.ret.what = "runtime_error"
               /\ result.ret.msg = MsgCouldNotOpen
       /\ result.ret.ok => other_reg.is_open

\* get_reg_meta_data was called on a file that does not open
C14_Witness ==
  result.op = "get_reg_meta_data" /\ ~other_reg.is_open /\ ~result.ret.ok

\* the first line of the whole file that contains the pattern, 0 if none
FirstLineWith(lines, pattern) ==
  LET hits == {i \in 1..Len(lines) : Contains(lines[i], pattern)}
  IN IF hits = {} THEN 0 ELSE FirstOf(hits)

MetaPatternOf(meta_value_name) == <<"#">> \o meta_value_name \o <<"=">>

\* the text of a line after the first occurrence of the pattern
TextAfter(line, pattern) == substr(line, find(line, pattern) + Len(pattern))

\* C15: for a file that opens, get_reg_meta_data returns the text after
\* #value_name= on the first line of the whole file that contains that
\* pattern, with the quotes stripped, whatever key section the line is in;
\* it returns the empty string when no line contains the pattern.
C15_MetaOfWholeFile ==
  LET pattern == MetaPatternOf(result.name)
      first == FirstLineWith(other_reg.lines, pattern)
  IN result.op = "get_reg_meta_data" /\ other_reg.is_open
       => /\ result.ret.ok
          /\ result.ret.value
               = IF first = 0 THEN <<>>
                 ELSE erase_remove(TextAfter(other_reg.lines[first], pattern), "\"")

\* the meta value was read from a line inside a key section
C15_Witness ==
  LET pattern == MetaPatternOf(result.name)
      first == FirstLineWith(other_reg.lines, pattern)
  IN /\ result.op = "get_reg_meta_data"
     /\ other_reg.is_open
     /\ first > 1
     /\ starts_with(other_reg.lines[first - 1], ReaderKey)
     /\ result.ret.ok /\ result.ret.value # <<>>

(***************************************************************************)
(* Properties of the configuration operations (checked under SpecConfig)   *)
(***************************************************************************)
\* what the reader yields for the values the operations look up
FoundDesktop ==
  get_reg_value(UserRegPath, RegKeyVirtualDesktop, RegNameVirtualDesktop).value
FoundResolution(name) ==
  get_reg_value(UserRegPath, RegKeyVirtualDesktopResolution, name).value
FoundArch == get_reg_meta_data(UserRegPath, <<"a","r","c","h">>).value
FoundAudio == get_reg_value(UserRegPath, RegKeyAudio, RegNameAudio).value

\* C16: when the Desktop value of the Explorer key is set to a name N,
\* get_virtual_desktop returns the value stored under the name N in the
\* Explorer\\Desktops key, for every N; when Desktop is not set it returns
\* the empty string.
C16_ResolutionOfNamedDesktop ==
  result.op = "get_virtual_desktop" /\ user_reg.is_open
    => /\ result.ret.ok
       /\ result.ret.value
            = IF FoundDesktop = <<>> THEN <<>> ELSE FoundResolution(FoundDesktop)

\* C18: get_windows_bitness maps the arch meta value win32 to 32-bit and
\* win64 to 64-bit; every other value, and an absent arch line, makes it fail
\* with a runtime error instead of returning a bitness.
C18_BitnessOrError ==
  result.op = "get_windows_bitness" /\ user_reg.is_open
    => IF FoundArch = <<"w","i","n","3","2">> THEN result.ret.ok /\ result.ret.value = "win32"
       ELSE IF FoundArch = <<"w","i","n","6","4">> THEN result.ret.ok /\ result.ret.value = "win64"
       ELSE ~result.ret.ok /\ result.ret.what = "runtime_error"

\* the bitness was asked of a user.reg that opens and has no arch line
C18_Witness ==
  /\ result.op = "get_windows_bitness"
  /\ user_reg.is_open
  /\ FirstLineWith(user_reg.lines, MetaPatternOf(<<"a","r","c","h">>)) = 0
  /\ ~result.ret.ok

\* the driver of an Audio value
DriverOf(value) ==
  IF value = <<"p","u","l","s","e">> THEN "pulseaudio"
  ELSE IF value = <<"a","l","s","a">> THEN "alsa"
  ELSE IF value = <<"o","s","s">> THEN "oss"
  ELSE IF value = <<"c","o","r","e","a","u","d","i","o">> THEN "coreaudio"
  ELSE IF value = <<"d","i","s","a","b","l","e","d">> THEN "disabled"
  ELSE "pulseaudio"

\* C19: for a user.reg that opens, get_audio_driver never fails and returns
\* the driver of the Audio value: pulse, alsa, oss, coreaudio and disabled
\* map to their drivers, every other value and an absent Audio value yield
\* the default driver, pulseaudio.
C19_AlwaysADriver ==
  result.op = "get_audio_driver" /\ user_reg.is_open
    => result.ret.ok /\ result.ret.value = DriverOf(FoundAudio)

\* the driver was asked of a user.reg whose Audio value names no driver
C19_Witness ==
  /\ result.op = "get_audio_driver"
  /\ user_reg.is_open
  /\ FoundAudio = <<"j","a","c","k">>
  /\ result.ret.ok /\ result.ret.value = "pulseaudio"

(***************************************************************************)
(* Properties of the status check (checked under SpecStatus)               *)
(***************************************************************************)
HasDosDevices == dir_exists(build_filename(prefix_path, DosDevices))
HasSystemReg == file_exists(build_filename(prefix_path, SystemReg))
VersionResolves == get_windows_version(prefix_path).ret.ok

\* C17: get_bottle_status returns true if and only if the prefix directory
\* exists, it holds a dosdevices directory and a regular system.reg file,
\* and get_windows_version completes without error for the prefix; it
\* returns false when dosdevices is missing, also when the version resolves.
C17_StatusIffComplete ==
  result.op = "get_bottle_status"
    => /\ (result.ret.ok /\ result.ret.value)
            <=> /\ dir_exists(prefix_path)
                /\ HasDosDevices
                /\ HasSystemReg
                /\ VersionResolves
       /\ ~HasDosDevices => result.ret.ok /\ ~result.ret.value

\* the status was asked of a bottle that lacks only its dosdevices directory
C17_Witness ==
  /\ result.op = "get_bottle_status"
  /\ dir_exists(prefix_path) /\ HasSystemReg /\ VersionResolves
  /\ ~HasDosDevices
  /\ result.ret.ok /\ ~result.ret.value

(***************************************************************************)
(* Properties of the bottle listing (checked under SpecPaths)              *)
(***************************************************************************)
\* the directories directly inside a directory
SubdirectoriesOf(root) ==
  {p \in disk.dirs : /\ starts_with(p, root \o <<"/">>)
                     /\ Len(p) > Len(root) + 1
                     /\ ~Contains(SubSeq(p, Len(root) + 2, Len(p)), <<"/">>)}

\* a path with its lower-case letters turned into capitals
FoldCase(path) ==
  [i \in 1..Len(path) |->
     IF ord(path[i]) \in 97..122 THEN chr(ord(path[i]) - 32) ELSE path[i]]

\* a comes strictly before b in the order of the character codes
Before(a, b) ==
  \E k \in 1..Len(b) :
    /\ k <= Len(a) + 1
    /\ \A i \in 1..(k - 1) : a[i] = b[i]
    /\ k = Len(a) + 1 \/ ord(a[k]) < ord(b[k])

\* the list holds each path of the set once, in case-insensitive order
SortedListOf(list, paths) ==
  /\ Len(list) = Cardinality(paths)
  /\ {list[i] : i \in 1..Len(list)} = paths
  /\ \A i, j \in 1..Len(list) :
       i < j => ~Before(FoldCase(list[j]), FoldCase(list[i]))

DefaultAppended ==
  result.display_default_wine_machine /\ dir_exists(DefaultBottleWineDir)

\* C20: get_bottles_paths(root, include_default) on a directory root returns
\* the directories directly inside root, each once and sorted
\* case-insensitively by full path, followed by the default bottle path as
\* the last element exactly when include_default is true and the default
\* path is a directory.
C20_SortedThenDefault ==
  result.op = "get_bottles_paths" /\ dir_exists(result.key)
    => /\ result.ret.ok
       /\ LET list == result.ret.value
              n == Cardinality(SubdirectoriesOf(result.key))
          IN /\ Len(list) = n + (IF DefaultAppended THEN 1 ELSE 0)
             /\ SortedListOf(SubSeq(list, 1, n), SubdirectoriesOf(result.key))
             /\ DefaultAppended => list[Len(list)] = DefaultBottleWineDir

\* Zeta, alpha and Beta are listed with the default bottle
C20_Witness ==
  /\ result.op = "get_bottles_paths"
  /\ result.ret.ok
  /\ result.ret.value
       = <<build_filename(BottlesDir, <<"a","l","p","h","a">>), build_filename(BottlesDir, <<"B","e","t","a">>),
           build_filename(BottlesDir, <<"Z","e","t","a">>), DefaultBottleWineDir>>

(***************************************************************************)
(* Properties of the escape decoder (checked under SpecDecoder)            *)
(***************************************************************************)
Decoded == result.op = "unescape_reg_key_data"
Input == result.key
Output == result.ret.value

NoBackslash(s) == \A i \in 1..Len(s) : s[i] # "\\"

\* the digits of base 16 in both cases, by value
LowerDigits == <<"0","1","2","3","4","5","6","7","8","9","a","b","c","d","e","f">>
UpperDigits == <<"0","1","2","3","4","5","6","7","8","9","A","B","C","D","E","F">>

\* c is a digit of the base
IsDigit(c, base) == \E v \in 1..base : c = LowerDigits[v] \/ c = UpperDigits[v]

DigitValue(c) ==
  (CHOOSE v \in 1..16 : c = LowerDigits[v] \/ c = UpperDigits[v]) - 1

\* the number a string of digits writes in a base
RECURSIVE NumberIn(_, _)
NumberIn(digits, base) ==
  IF digits = <<>> THEN 0
  ELSE NumberIn(SubSeq(digits, 1, Len(digits) - 1), base) * base
         + DigitValue(digits[Len(digits)])

\* how many digits of the base s starts with, counting no more than most
RECURSIVE LeadingDigits(_, _, _)
LeadingDigits(s, base, most) ==
  IF most = 0 \/ s = <<>> \/ ~IsDigit(s[1], base) THEN 0
  ELSE 1 + LeadingDigits(SubSeq(s, 2, Len(s)), base, most - 1)

\* UTF-8 of a code point up to 0xFFFF
Utf8(c) ==
  IF c <= 127 THEN <<chr(c)>>
  ELSE IF c <= 2047 THEN <<chr(192 + (c \div 64)), chr(128 + (c % 64))>>
  ELSE <<chr(224 + (c \div 4096)), chr(128 + ((c \div 64) % 64)), chr(128 + (c % 64))>>

\* the input is a backslash and x and what follows them
AfterBackslashX ==
  IF Len(Input) >= 2 /\ Input[1] = "\\" /\ Input[2] = "x"
    THEN SubSeq(Input, 3, Len(Input)) ELSE <<>>
IsBackslashX == Len(Input) >= 2 /\ Input[1] = "\\" /\ Input[2] = "x"
HexRun == LeadingDigits(AfterBackslashX, 16, 4)

\* C21: a backslash and x followed by hex digits consumes the first 1 to 4 of
\* them, as many as there are, and emits the UTF-8 encoding of the code point
\* they write; further digits follow as ordinary characters.  A backslash and
\* x followed by no hex digit emits x and the decoding goes on behind the x.
C21_HexEscape ==
  Decoded /\ IsBackslashX /\ NoBackslash(AfterBackslashX)
    => Output = IF HexRun = 0 THEN <<"x">> \o AfterBackslashX
                ELSE Utf8(NumberIn(SubSeq(AfterBackslashX, 1, HexRun), 16))
                       \o SubSeq(AfterBackslashX, HexRun + 1, Len(AfterBackslashX))

\* four hex digits were consumed and a fifth digit was left as it is
C21_Witness ==
  /\ Decoded /\ IsBackslashX
  /\ HexRun = 4
  /\ Len(AfterBackslashX) = 5 /\ IsDigit(AfterBackslashX[5], 16)
  /\ Output = Utf8(NumberIn(SubSeq(AfterBackslashX, 1, 4), 16)) \o <<AfterBackslashX[5]>>

\* the input is a backslash and what follows it, starting with an octal digit
AfterBackslash ==
  IF Len(Input) >= 1 /\ Input[1] = "\\" THEN SubSeq(Input, 2, Len(Input)) ELSE <<>>
IsBackslashOctal ==
  Len(Input) >= 2 /\ Input[1] = "\\" /\ IsDigit(Input[2], 8)
OctalRun == LeadingDigits(AfterBackslash, 8, 3)

\* C22: a backslash followed by a digit 0-7 consumes the first 1 to 3 octal
\* digits, as many as there are, and emits the UTF-8 encoding of the code
\* point they write; a fourth octal digit, or a digit 8 or 9, follows as an
\* ordinary character.
C22_OctalEscape ==
  Decoded /\ IsBackslashOctal /\ NoBackslash(AfterBackslash)
    => Output = Utf8(NumberIn(SubSeq(AfterBackslash, 1, OctalRun), 8))
                  \o SubSeq(AfterBackslash, OctalRun + 1, Len(AfterBackslash))

\* three octal digits were consumed and a fourth was left as it is
C22_Witness ==
  /\ Decoded /\ IsBackslashOctal
  /\ OctalRun = 3
  /\ Len(AfterBackslash) = 4 /\ IsDigit(AfterBackslash[4], 8)
  /\ Output = Utf8(NumberIn(SubSeq(AfterBackslash, 1, 3), 8)) \o <<AfterBackslash[4]>>

\* the control character each escape letter stands for, by its code
ControlCode ==
  [a |-> 7, b |-> 8, e |-> 27, f |-> 12, n |-> 10, r |-> 13, t |-> 9, v |-> 11]

\* position of the only backslash of the input, 0 if it has none or several
OnlyBackslash ==
  LET at == {i \in 1..Len(Input) : Input[i] = "\\"}
  IN IF Cardinality(at) = 1 THEN CHOOSE i \in at : TRUE ELSE 0

\* C23: a backslash with one of a, b, e, f, n, r, t, v decodes to the one
\* control character of that letter, and the characters around it, like every
\* input without a backslash, are copied unchanged; the inputs backslash-n,
\* backslash-t, backslash-x41 and backslash-101 decode to newline, tab, A
\* and A.
C23_ControlEscapes ==
  Decoded
    => /\ \A letter \in DOMAIN ControlCode :
            /\ OnlyBackslash # 0
            /\ OnlyBackslash < Len(Input)
            /\ Input[OnlyBackslash + 1] = letter
            => Output = SubSeq(Input, 1, OnlyBackslash - 1)
                          \o <<chr(ControlCode[letter])>>
                          \o SubSeq(Input, OnlyBackslash + 2, Len(Input))
       /\ NoBackslash(Input) => Output = Input
       /\ Input = <<"\\","n">> => Output = <<"\n">>
       /\ Input = <<"\\","t">> => Output = <<"\t">>
       /\ Input = <<"\\","x","4","1">> => Output = <<"A">>
       /\ Input = <<"\\","1","0","1">> => Output = <<"A">>

\* backslash-x41 was decoded to A
C23_Witness ==
  Decoded /\ Input = <<"\\","x","4","1">> /\ Output = <<"A">>

\* c starts an escape the decoder knows
StartsEscape(c) ==
  c \in DOMAIN ControlCode \/ c = "x" \/ IsDigit(c, 8)

\* C24: the decoder returns a string for every input.  A backslash before a
\* character that starts no escape is dropped and the character is emitted
\* as it is, a second backslash included; a backslash that ends the input is
\* dropped and nothing is emitted for it.
C24_MalformedEscapes ==
  Decoded
    => /\ result.ret.ok
       /\ \A i \in 1..Len(Input) :
            /\ NoBackslash(SubSeq(Input, 1, i - 1))
            /\ Input[i] = "\\"
            => IF i = Len(Input) THEN Output = SubSeq(Input, 1, i - 1)
               ELSE /\ ~StartsEscape(Input[i + 1])
                    /\ NoBackslash(SubSeq(Input, i + 2, Len(Input)))
                    => Output = SubSeq(Input, 1, i - 1) \o SubSeq(Input, i + 1, Len(Input))

\* a doubled backslash was decoded to one backslash
C24_Witness ==
  Decoded /\ Input = <<"q", "\\", "\\">> /\ Output = <<"q", "\\">>

\* the code point of an input that is one whole hex or octal escape, -1 for
\* any other input
CodePoint ==
  IF IsBackslashX /\ HexRun > 0 /\ HexRun = Len(AfterBackslashX)
    THEN NumberIn(AfterBackslashX, 16)
  ELSE IF IsBackslashOctal /\ OctalRun = Len(AfterBackslash)
    THEN NumberIn(AfterBackslash, 8)
  ELSE 0 - 1

\* C25: a code point c of a hex or octal escape is emitted as the byte c when
\* c <= 0x7F, as the bytes 0xC0|(c>>6), 0x80|(c&0x3F) when c <= 0x7FF, and as
\* the bytes 0xE0|(c>>12), 0x80|((c>>6)&0x3F), 0x80|(c&0x3F) when c <= 0xFFFF;
\* an escape writes no larger code point.
C25_Utf8Bytes ==
  LET c == CodePoint
      bytes == [i \in 1..Len(Output) |-> ord(Output[i])]
  IN Decoded /\ c >= 0
       => /\ c <= 65535
          /\ c <= 127 => bytes = <<c>>
          /\ 128 <= c /\ c <= 2047 => bytes = <<192 + (c \div 64), 128 + (c % 64)>>
          /\ 2048 <= c
               => bytes = <<224 + (c \div 4096), 128 + ((c \div 64) % 64), 128 + (c % 64)>>

\* the largest code point of four hex digits was emitted as three bytes
C25_Witness ==
  Decoded /\ CodePoint = 65535 /\ Len(Output) = 3

\* C30: the decoded string is never longer than the input, it is shorter
\* when the input holds a backslash, since an escape of k characters gives
\* at most k-1 bytes, and it is the input when the input holds no backslash.
C30_OutputBound ==
  Decoded
    => /\ Len(Output) <= Len(Input)
       /\ ~NoBackslash(Input) => Len(Output) < Len(Input)
       /\ NoBackslash(Input) => Output = Input

\* an escape of five characters gave three bytes
C30_Witness ==
  /\ Decoded /\ IsBackslashX
  /\ Len(Input) = 5 /\ HexRun = 3
  /\ Len(Output) = 3

(***************************************************************************)
(* Properties of the errors and of the listing                             *)
(***************************************************************************)
\* C27 (checked under SpecConfig): every error raised by
\* get_windows_version, get_windows_bitness, get_audio_driver or
\* get_virtual_desktop, the error for a registry file that cannot be opened
\* included, has a message that contains the folder name and the full path
\* of the bottle.
C27_ErrorsNameTheBottle ==
  /\ result.op \in {"get_windows_version", "get_windows_bitness", "get_audio_driver",
                    "get_virtual_desktop"}
  /\ ~result.ret.ok
  => /\ Contains(result.ret.msg, FolderOf(prefix_path))
     /\ Contains(result.ret.msg, prefix_path)

\* C28 (checked under SpecStatus): get_bottle_status returns true or false
\* for every prefix and every content of the registry files of the bottle;
\* no error of get_windows_version leaves it.
C28_StatusIsTotal ==
  result.op = "get_bottle_status"
    => result.ret.ok /\ result.ret.value \in BOOLEAN

\* C29 (checked under SpecPaths): the list get_bottles_paths returns holds no
\* path twice, also for a root that is the parent directory of the default
\* bottle path.
C29_NoPathTwice ==
  result.op = "get_bottles_paths" /\ result.ret.ok
    => \A i, j \in 1..Len(result.ret.value) :
         i < j => result.ret.value[i] # result.ret.value[j]

(***************************************************************************)
(* Properties of calls that follow each other (checked under SpecCalls)    *)
(***************************************************************************)
\* what the call recorded in r returns when it is made on the files as they
\* are in the current state
Recomputed(r) ==
  IF r.op = "get_reg_value"
    THEN get_reg_value(r.opened[1], r.key, r.name)
    ELSE get_windows_version(prefix_path).ret

\* the last two calls had equal arguments and read equal files
SameCallTwice ==
  /\ result.op # "none"
  /\ result.previous.op = result.op
  /\ result.previous.key = result.key
  /\ result.previous.name = result.name
  /\ result.previous.read = result.read

====
